---- MODULE Spec2Model ----
(***************************************************************************)
(* Model of tmux-layout: the command builder (src/src/tmux/command.rs),    *)
(* the split-tree model and its flat-map (de)serialisation                 *)
(* (src/src/config/model.rs), the working-directory value (src/src/cwd.rs) *)
(* and a model of the multiplexer that executes the emitted subcommands.   *)
(*                                                                         *)
(* Option<T> is a sequence of length at most one: None == <<>>,            *)
(* Some(x) == <<x>>.  A path is [abs, comps]: whether it starts at the     *)
(* root, and its components.                                               *)
(***************************************************************************)
EXTENDS Integers, Sequences, FiniteSets, TLC

VARIABLES
    \* TmuxCommandBuilder (command.rs:23-29)
    command, first_command, current_session_name, window_count, active_window_index,
    seps,      \* history: positions of `command` where push_new_command put ";"
    ncmds,     \* history: number of push_new_command calls
    ops,       \* history: the builder operations applied so far, with their inputs
    \* compile-and-execute of one window
    xwindow,   \* the configured Window, the only one of session "s"
    xcmds,     \* the subcommands new_session emitted for it, not yet executed
    tmux,      \* the multiplexer's session: its windows and the current one
    xlog,      \* history: the executed subcommands, each with the pane it left active
    xpc,       \* "idle", "config" (nothing emitted yet), "run", "done"
    \* (de)serialisation
    sinput, sdoc, soutput, sstage,
    \* Cwd::joined
    jself, jother, jresult, jpc,
    \* load_config_at: the files, the calls in progress, the outcome
    files, lstack, lresult, lpc,
    \* Layout::parse and the conversion to a split
    linput, llayout, lsplit, lstage,
    \* parse_tmux_state and the conversion to sessions
    iinput, istate, isessions, ipc

vars == <<command, first_command, current_session_name, window_count,
          active_window_index, seps, ncmds, ops,
          xwindow, xcmds, tmux, xlog, xpc, sinput, sdoc, soutput, sstage,
          jself, jother, jresult, jpc, files, lstack, lresult, lpc,
          linput, llayout, lsplit, lstage, iinput, istate, isessions, ipc>>

builderVars == <<command, first_command, current_session_name, window_count,
                 active_window_index, seps, ncmds, ops>>
execVars == <<xwindow, xcmds, tmux, xlog, xpc>>
serdeVars == <<sinput, sdoc, soutput, sstage>>
cwdVars == <<jself, jother, jresult, jpc>>
loadVars == <<files, lstack, lresult, lpc>>
layoutVars == <<linput, llayout, lsplit, lstage>>
importVars == <<iinput, istate, isessions, ipc>>
restVars == <<cwdVars, loadVars, layoutVars, importVars>>

IdleCwd ==
    /\ jself = <<>>
    /\ jother = <<>>
    /\ jresult = <<>>
    /\ jpc = "idle"

IdleLoad ==
    /\ files = <<>>
    /\ lstack = <<>>
    /\ lresult = <<>>
    /\ lpc = "idle"

IdleLayout ==
    /\ linput = <<>>
    /\ llayout = <<>>
    /\ lsplit = <<>>
    /\ lstage = "idle"

IdleImport ==
    /\ iinput = <<>>
    /\ istate = <<>>
    /\ isessions = <<>>
    /\ ipc = "idle"

IdleRest == IdleCwd /\ IdleLoad /\ IdleLayout /\ IdleImport

(***************************************************************************)
(* Bounds                                                                  *)
(***************************************************************************)
MaxOps == 2          \* builder operations applied in one run
MaxPanes == 4        \* panes of an executed window's split tree
MaxComps == 2        \* components of a path given to Cwd::joined

None == <<>>
Some(x) == <<x>>
is_some(o) == Len(o) = 1
is_none(o) == Len(o) = 0

Last(s) == s[Len(s)]
Front(s) == SubSeq(s, 1, Len(s) - 1)

\* A method body that mutates `self` statement by statement is written as the
\* tuple of the values after each statement, in order; the method returns the last.
After(steps) == steps[Len(steps)]

(***************************************************************************)
(* Working directory (cwd.rs)                                              *)
(***************************************************************************)
Path(abs, comps) == [abs |-> abs, comps |-> comps]

is_absolute(path) == path.abs

\* Path::join for a relative `path`: its components follow the prefix's.
PathJoin(prefix, path) == [abs |-> prefix.abs, comps |-> prefix.comps \o path.comps]

\* impl From<PathBuf> for Cwd: a path without components is the absent value.
CwdFromPathBuf(p) == IF ~p.abs /\ p.comps = <<>> THEN None ELSE Some(p)

joinedSwapped(self, other) ==
    IF is_none(self) THEN other
    ELSE IF is_absolute(self[1]) THEN self
    ELSE IF is_none(other) THEN self
    ELSE CwdFromPathBuf(PathJoin(other[1], self[1]))

joined(self, other) ==
    IF is_none(other) THEN self
    ELSE IF is_absolute(other[1]) THEN other
    ELSE IF is_none(self) THEN other
    ELSE CwdFromPathBuf(PathJoin(self[1], other[1]))

to_path(cwd) == cwd

CwdIsEmpty(cwd) == is_none(cwd) \/ (~cwd[1].abs /\ cwd[1].comps = <<>>)

\* impl From<String> for Cwd, on the parsed string: the empty string is absent.
CwdFromPath(p) == IF ~p.abs /\ p.comps = <<>> THEN None ELSE Some(p)

RECURSIVE CompsStr(_)
CompsStr(comps) ==
    IF comps = <<>> THEN ""
    ELSE IF Len(comps) = 1 THEN comps[1]
    ELSE comps[1] \o "/" \o CompsStr(Tail(comps))

\* The path as the OsStr pushed to the argv.
PathStr(path) == (IF path.abs THEN "/" ELSE "") \o CompsStr(path.comps)

(***************************************************************************)
(* Split tree (model.rs:59-177)                                            *)
(***************************************************************************)
Pane(cwd, active, shell_command, send_keys) ==
    [cwd |-> cwd, active |-> active, shell_command |-> shell_command,
     send_keys |-> send_keys]

DefaultPane == Pane(None, FALSE, None, None)

SplitPane(pane) == [kind |-> "Pane", pane |-> pane]
HPart(width, split) == [width |-> width, split |-> split]
VPart(height, split) == [height |-> height, split |-> split]
SplitH(left, right) == [kind |-> "H", left |-> left, right |-> right]
SplitV(top, bottom) == [kind |-> "V", top |-> top, bottom |-> bottom]

DefaultSplit == SplitPane(DefaultPane)
DefaultHPart == HPart(None, DefaultSplit)
DefaultVPart == VPart(None, DefaultSplit)

Window(name, cwd, active, root_split) ==
    [name |-> name, cwd |-> cwd, active |-> active, root_split |-> root_split]

Session(name, cwd, windows) == [name |-> name, cwd |-> cwd, windows |-> windows]

\* Panes::next, run to exhaustion: the panes in the order the iterator yields them.
RECURSIVE PanesRightFirst(_)
PanesRightFirst(stack) ==
    IF stack = <<>> THEN <<>>
    ELSE LET split == Last(stack)
             rest == Front(stack)
         IN  CASE split.kind = "Pane" -> <<split.pane>> \o PanesRightFirst(rest)
               [] split.kind = "H" ->
                    PanesRightFirst(rest \o <<split.left.split, split.right.split>>)
               [] split.kind = "V" ->
                    PanesRightFirst(rest \o <<split.top.split, split.bottom.split>>)

RECURSIVE Panes(_)
Panes(stack) ==
    IF stack = <<>> THEN <<>>
    ELSE LET split == Last(stack)
             rest == Front(stack)
         IN  CASE split.kind = "Pane" -> <<split.pane>> \o Panes(rest)
               [] split.kind = "H" ->
                    Panes(rest \o <<split.right.split, split.left.split>>)
               [] split.kind = "V" ->
                    Panes(rest \o <<split.bottom.split, split.top.split>>)

pane_iter(split) == Panes(<<split>>)

(***************************************************************************)
(* Command builder (command.rs).  A builder value is the record of the      *)
(* struct's fields; every method is an operator from builder to builder.    *)
(***************************************************************************)
NewBuilder(tmux_path, tmux_args) ==
    [command |-> <<tmux_path>> \o tmux_args,
     first_command |-> TRUE,
     current_session_name |-> None,
     window_count |-> 0,
     active_window_index |-> None,
     seps |-> {},
     ncmds |-> 0]

push(b, arg) == [b EXCEPT !.command = Append(@, arg)]

push_flag_arg(b, flag, arg) ==
    IF is_some(arg) THEN push(push(b, flag), arg[1]) ELSE b

push_arg(b, arg) == IF is_some(arg) THEN push(b, arg[1]) ELSE b

push_new_commandAlwaysSep(b, cmd) ==
    LET sep == push(b, ";")
    IN  push([sep EXCEPT !.first_command = FALSE,
                         !.seps = @ \cup {Len(sep.command)},
                         !.ncmds = @ + 1], cmd)

push_new_command(b, cmd) ==
    IF b.first_command
    THEN push([b EXCEPT !.first_command = FALSE, !.ncmds = @ + 1], cmd)
    ELSE LET sep == push(b, ";")
         IN  push([sep EXCEPT !.seps = @ \cup {Len(sep.command)},
                              !.ncmds = @ + 1], cmd)

\* Target<Scope>: the three optional components; Display per scope.
Target(session, window, pane) == [session |-> session, window |-> window, pane |-> pane]
TargetDefault == Target(None, None, None)
TargetSession(session) == Target(Some(session), None, None)
TargetWindow(t, window) == Target(t.session, Some(window), None)
TargetCurrentWindow(t) == Target(t.session, None, None)
TargetPane(t, pane) == Target(t.session, t.window, Some(pane))

unwrap_or(o, d) == IF is_some(o) THEN o[1] ELSE d

DisplaySession(t) == unwrap_or(t.session, "") \o ":"
DisplayWindowNoDot(t) == unwrap_or(t.session, "") \o ":" \o unwrap_or(t.window, "")

DisplayWindow(t) == unwrap_or(t.session, "") \o ":" \o unwrap_or(t.window, "") \o "."
DisplayPane(t) ==
    unwrap_or(t.session, "") \o ":" \o unwrap_or(t.window, "") \o "."
        \o unwrap_or(t.pane, "")

push_target_arg(b, shown) == push_flag_arg(b, "-t", Some(shown))

push_cwd_arg(b, cwd) ==
    push_flag_arg(b, "-c", IF is_some(to_path(cwd)) THEN Some(PathStr(cwd[1])) ELSE None)

session_targetDefault(b) == TargetDefault

session_target(b) ==
    IF is_some(b.current_session_name)
    THEN TargetSession(b.current_session_name[1])
    ELSE TargetDefault

push_axis_arg(b, axis) ==
    CASE axis = "Horizontal" -> push(b, "-h")
      [] axis = "Vertical" -> push(b, "-v")

push_direction_arg(b, direction) ==
    CASE direction = "Left" -> push(b, "-L")
      [] direction = "Right" -> push(b, "-R")
      [] direction = "Up" -> push(b, "-U")
      [] direction = "Down" -> push(b, "-D")

push_next_prev_arg(b, direction) ==
    CASE direction = "Left" -> push(b, "-p")
      [] direction = "Right" -> push(b, "-n")
      [] direction = "Up" -> push(b, "-p")
      [] direction = "Down" -> push(b, "-n")

push_flow_arg(b, flow) ==
    CASE flow = "Regular" -> b
      [] flow = "Inverted" -> push_arg(b, Some("-b"))

push_query_scope_arg(b, scope) ==
    CASE scope = "AllSessions" -> push(b, "-a")
      [] scope = "CurrentSession" -> push(b, "-s")
      [] scope = "CurrentWindow" -> b

\* SplitFlow::direction
direction(flow, axis) ==
    CASE flow = "Regular" /\ axis = "Horizontal" -> "Right"
      [] flow = "Regular" /\ axis = "Vertical" -> "Down"
      [] flow = "Inverted" /\ axis = "Horizontal" -> "Left"
      [] flow = "Inverted" /\ axis = "Vertical" -> "Up"

\* Direction::inverted
inverted(d) ==
    CASE d = "Left" -> "Right"
      [] d = "Right" -> "Left"
      [] d = "Up" -> "Down"
      [] d = "Down" -> "Up"

SplitFlowFromRightSide(split) ==
    CASE split.kind = "Pane" -> "Regular"
      [] split.kind = "H" ->
            IF is_some(split.right.width) THEN "Inverted" ELSE "Regular"
      [] split.kind = "V" ->
            IF is_some(split.bottom.height) THEN "Inverted" ELSE "Regular"

\* impl From<&Split> for SplitFlow
SplitFlowFrom(split) ==
    CASE split.kind = "Pane" -> "Regular"
      [] split.kind = "H" ->
            IF is_some(split.left.width) THEN "Inverted" ELSE "Regular"
      [] split.kind = "V" ->
            IF is_some(split.top.height) THEN "Inverted" ELSE "Regular"

RECURSIVE root_pane(_)
root_pane(split) ==
    CASE split.kind = "Pane" -> split.pane
      [] split.kind = "H" ->
            IF SplitFlowFrom(split) = "Regular"
            THEN root_pane(split.left.split)
            ELSE root_pane(split.right.split)
      [] split.kind = "V" ->
            IF SplitFlowFrom(split) = "Regular"
            THEN root_pane(split.top.split)
            ELSE root_pane(split.bottom.split)

\* A method body is a chain of calls on the builder, `self.f(x).g(y)` or one
\* statement after the other: Chain applies the calls in order, each written
\* <<method, arguments...>>, and Call is the call of one method by its name.  The
\* session target read inside a chain is the one of the builder the chain starts
\* from: no call of a chain but new_session changes the current session name.
RECURSIVE Call(_, _)
RECURSIVE Chain(_, _)
Chain(b, calls) ==
    IF calls = <<>> THEN b
    ELSE IF Len(calls) = 1 THEN Call(b, calls[1])
    ELSE LET half == Len(calls) \div 2
             b1 == Chain(b, SubSeq(calls, 1, half))
         IN  After(<<b1, Chain(b1, SubSeq(calls, half + 1, Len(calls)))>>)

send_keys(b, keys) ==
    Chain(b, << <<"push_new_command", "send-keys">>,
                <<"push_target_arg", DisplaySession(session_target(b))>> >>
             \o [i \in 1..Len(keys) |-> <<"push_arg", Some(keys[i])>>])

split_pane(b, axis, flow, cwd, shell_command, size) ==
    Chain(b, << <<"push_new_command", "split-window">>,
                <<"push_target_arg", DisplaySession(session_target(b))>>,
                <<"push_axis_arg", axis>>,
                <<"push_flow_arg", flow>>,
                <<"push_cwd_arg", cwd>>,
                <<"push_flag_arg", "-l", size>>,
                <<"push_arg", shell_command>> >>)

select_pane_at(b, dir) ==
    Chain(b, << <<"push_new_command", "select-pane">>,
                <<"push_target_arg", DisplaySession(session_target(b))>>,
                <<"push_direction_arg", dir>> >>)

select_window_at(b, dir) ==
    Chain(b, << <<"push_new_command", "select-window">>,
                <<"push_target_arg", DisplaySession(session_target(b))>>,
                <<"push_next_prev_arg", dir>> >>)

select_window(b, target) ==
    Chain(b, << <<"push_new_command", "select-window">>,
                <<"push_target_arg", DisplayWindow(target)>> >>)

switch_client(b, target) ==
    Chain(b, << <<"push_new_command", "switch-client">>,
                <<"push_target_arg", DisplaySession(target)>> >>)

attach_session(b, target) ==
    Chain(b, << <<"push_new_command", "attach-session">>,
                <<"push_target_arg", DisplaySession(target)>> >>)

\* The side apply_split treats as parent and the one it treats as child.
ParentSide(split, flow) ==
    CASE split.kind = "H" -> IF flow = "Regular" THEN split.left ELSE split.right
      [] split.kind = "V" -> IF flow = "Regular" THEN split.top ELSE split.bottom

ChildSide(split, flow) ==
    CASE split.kind = "H" -> IF flow = "Regular" THEN split.right ELSE split.left
      [] split.kind = "V" -> IF flow = "Regular" THEN split.bottom ELSE split.top

SideSize(split, side) == IF split.kind = "H" THEN side.width ELSE side.height

AxisOf(split) == IF split.kind = "H" THEN "Horizontal" ELSE "Vertical"

apply_splitParentSize(b, split, parent_cwd) ==
    LET flow == SplitFlowFrom(split)
    IN  IF split.kind = "Pane"
        THEN IF is_some(split.pane.send_keys)
             THEN send_keys(b, split.pane.send_keys[1])
             ELSE b
        ELSE LET parent == ParentSide(split, flow)
                 child == ChildSide(split, flow)
                 child_pane == root_pane(child.split)
                 child_pane_cwd == joined(parent_cwd, child_pane.cwd)
             IN  Chain(b, << <<"split_pane", AxisOf(split), flow, child_pane_cwd,
                               child_pane.shell_command, SideSize(split, parent)>>,
                             <<"apply_split", child.split, parent_cwd>>,
                             <<"select_pane_at", inverted(direction(flow, AxisOf(split)))>>,
                             <<"apply_split", parent.split, parent_cwd>> >>)

apply_split(b, split, parent_cwd) ==
    LET flow == SplitFlowFrom(split)
    IN  IF split.kind = "Pane"
        THEN IF is_some(split.pane.send_keys)
             THEN send_keys(b, split.pane.send_keys[1])
             ELSE b
        ELSE LET parent == ParentSide(split, flow)
                 child == ChildSide(split, flow)
                 child_pane == root_pane(child.split)
                 child_pane_cwd == joined(parent_cwd, child_pane.cwd)
             IN  Chain(b, << <<"split_pane", AxisOf(split), flow, child_pane_cwd,
                               child_pane.shell_command, SideSize(split, child)>>,
                             <<"apply_split", child.split, parent_cwd>>,
                             <<"select_pane_at", inverted(direction(flow, AxisOf(split)))>>,
                             <<"apply_split", parent.split, parent_cwd>> >>)

apply_root_splitParentCwd(b, split, parent_cwd) ==
    LET first_pane == root_pane(split)
        first_pane_cwd == parent_cwd
        first_pane_target == TargetPane(TargetCurrentWindow(session_target(b)), "0")
    IN  Chain(b, << <<"split_pane", "Horizontal", "Regular", first_pane_cwd,
                      first_pane.shell_command, None>>,
                    <<"push_new_command", "kill-pane">>,
                    <<"push_target_arg", DisplayPane(first_pane_target)>>,
                    <<"apply_split", split, parent_cwd>> >>)

apply_root_split(b, split, parent_cwd) ==
    LET first_pane == root_pane(split)
        first_pane_cwd == joined(parent_cwd, first_pane.cwd)
        first_pane_target == TargetPane(TargetCurrentWindow(session_target(b)), "0")
    IN  Chain(b, << <<"split_pane", "Horizontal", "Regular", first_pane_cwd,
                      first_pane.shell_command, None>>,
                    <<"push_new_command", "kill-pane">>,
                    <<"push_target_arg", DisplayPane(first_pane_target)>>,
                    <<"apply_split", split, parent_cwd>> >>)

\* enumerate().filter(|(_, pane)| pane.active): the zero-based positions.
ActivePanes(window) ==
    LET panes == pane_iter(window.root_split)
    IN  SelectSeq([i \in 1..Len(panes) |-> i - 1], LAMBDA i : panes[i + 1].active)

select_active_paneLast(b, window) ==
    LET active_panes == ActivePanes(window)
    IN  IF active_panes # <<>>
        THEN LET pane_index == Last(active_panes)
                 target == TargetPane(TargetCurrentWindow(session_target(b)),
                                      ToString(pane_index))
             IN  Chain(b, << <<"push_new_command", "select-pane">>,
                             <<"push_target_arg", DisplayPane(target)>> >>)
        ELSE b

select_active_pane(b, window) ==
    LET active_panes == ActivePanes(window)
    IN  IF active_panes # <<>>
        THEN LET pane_index == active_panes[1]
                 target == TargetPane(TargetCurrentWindow(session_target(b)),
                                      ToString(pane_index))
             IN  Chain(b, << <<"push_new_command", "select-pane">>,
                             <<"push_target_arg", DisplayPane(target)>> >>)
        ELSE b

new_window(b, window, parent_cwd, before_target) ==
    LET b0 == [b EXCEPT !.active_window_index =
                            IF window.active /\ is_none(b.active_window_index)
                            THEN Some(b.window_count) ELSE @,
                        !.window_count = @ + 1]
        window_cwd == joined(parent_cwd, window.cwd)
    IN  Chain(b0, << <<"push_new_command", "new-window">>,
                     <<"push_flag_arg", "-n", window.name>>,
                     <<"push_cwd_arg", window_cwd>> >>
                  \o (IF is_some(before_target)
                      THEN << <<"push", "-b">>,
                              <<"push_target_arg",
                                DisplayWindow(TargetWindow(session_target(b),
                                                           before_target[1]))>> >>
                      ELSE << <<"push_target_arg", DisplaySession(session_target(b))>> >>)
                  \o << <<"apply_root_split", window.root_split, window_cwd>>,
                        <<"select_active_pane", window>> >>)

create_initial_windowNoReset(b, window, parent_cwd) ==
    LET target == TargetWindow(session_target(b), "1")
    IN  Chain(b, << <<"new_window", window, parent_cwd, Some("0")>>,
                    <<"push_new_command", "kill-window">>,
                    <<"push_target_arg", DisplayWindow(target)>> >>)

create_initial_window(b, window, parent_cwd) ==
    LET b0 == [b EXCEPT !.active_window_index = None, !.window_count = 0]
        target == TargetWindow(session_target(b), "1")
    IN  Chain(b0, << <<"new_window", window, parent_cwd, Some("0")>>,
                     <<"push_new_command", "kill-window">>,
                     <<"push_target_arg", DisplayWindow(target)>> >>)

select_active_windowFromCount(b) ==
    IF is_some(b.active_window_index)
    THEN LET index == b.active_window_index[1]
         IN  IF is_some(b.current_session_name)
             THEN select_window(b, TargetWindow(TargetSession(b.current_session_name[1]),
                                                ToString(index)))
             ELSE Chain(b, [i \in 1..(b.window_count - index) |->
                               <<"select_window_at", "Left">>])
    ELSE b

select_active_window(b) ==
    IF is_some(b.active_window_index)
    THEN LET index == b.active_window_index[1]
         IN  IF is_some(b.current_session_name)
             THEN select_window(b, TargetWindow(TargetSession(b.current_session_name[1]),
                                                ToString(index)))
             ELSE Chain(b, [i \in 1..(b.window_count - index - 1) |->
                               <<"select_window_at", "Left">>])
    ELSE b

new_windows(b, windows, parent_cwd) ==
    Chain(b, [i \in 1..Len(windows) |-> <<"new_window", windows[i], parent_cwd, None>>]
             \o << <<"select_active_window">> >>)

new_sessionNoEmptyCheck(b, session) ==
    LET b0 == [b EXCEPT !.current_session_name = Some(session.name)]
    IN  Chain(b0, << <<"push_new_command", "new-session">>,
                     <<"push_flag_arg", "-s", Some(session.name)>>,
                     <<"push_cwd_arg", session.cwd>>,
                     <<"push", "-d">> >>
                  \o (IF session.windows = <<>> THEN <<>>
                      ELSE << <<"create_initial_window", session.windows[1], session.cwd>>,
                              <<"new_windows", Tail(session.windows), session.cwd>> >>))

new_session(b, session) ==
    IF session.windows = <<>> THEN b
    ELSE LET b0 == [b EXCEPT !.current_session_name = Some(session.name)]
         IN  Chain(b0, << <<"push_new_command", "new-session">>,
                          <<"push_flag_arg", "-s", Some(session.name)>>,
                          <<"push_cwd_arg", session.cwd>>,
                          <<"push", "-d">>,
                          <<"create_initial_window", session.windows[1], session.cwd>>,
                          <<"new_windows", Tail(session.windows), session.cwd>> >>)

new_sessionsReversed(b, sessions) ==
    Chain(b, [i \in 1..Len(sessions) |-> <<"new_session", sessions[Len(sessions) + 1 - i]>>])

new_sessions(b, sessions) ==
    Chain(b, [i \in 1..Len(sessions) |-> <<"new_session", sessions[i]>>])

select_sessionAlwaysNamed(b, name, mode) ==
    CASE mode = "Detached" -> b
      [] mode = "Switch" -> switch_client(b, TargetSession(unwrap_or(name, "")))
      [] mode = "Attach" -> switch_client(b, TargetSession(unwrap_or(name, "")))

select_session(b, name, mode) ==
    IF mode = "Detached" THEN b
    ELSE LET target == IF is_none(name) THEN TargetDefault ELSE TargetSession(name[1])
         IN  CASE mode = "Switch" -> switch_client(b, target)
               [] mode = "Attach" -> attach_session(b, target)

query_panes(b, format, scope) ==
    Chain(b, << <<"push_new_command", "list-panes">>,
                <<"push", "-F">>,
                <<"push", format>>,
                <<"push_query_scope_arg", scope>> >>)

query_clients(b) == push_new_command(b, "list-clients")

Call(b, c) ==
    CASE c[1] = "push" -> push(b, c[2])
      [] c[1] = "push_arg" -> push_arg(b, c[2])
      [] c[1] = "push_flag_arg" -> push_flag_arg(b, c[2], c[3])
      [] c[1] = "push_new_command" -> push_new_command(b, c[2])
      [] c[1] = "push_target_arg" -> push_target_arg(b, c[2])
      [] c[1] = "push_cwd_arg" -> push_cwd_arg(b, c[2])
      [] c[1] = "push_axis_arg" -> push_axis_arg(b, c[2])
      [] c[1] = "push_direction_arg" -> push_direction_arg(b, c[2])
      [] c[1] = "push_next_prev_arg" -> push_next_prev_arg(b, c[2])
      [] c[1] = "push_flow_arg" -> push_flow_arg(b, c[2])
      [] c[1] = "push_query_scope_arg" -> push_query_scope_arg(b, c[2])
      [] c[1] = "split_pane" -> split_pane(b, c[2], c[3], c[4], c[5], c[6])
      [] c[1] = "select_pane_at" -> select_pane_at(b, c[2])
      [] c[1] = "select_window_at" -> select_window_at(b, c[2])
      [] c[1] = "apply_split" -> apply_split(b, c[2], c[3])
      [] c[1] = "apply_root_split" -> apply_root_split(b, c[2], c[3])
      [] c[1] = "select_active_pane" -> select_active_pane(b, c[2])
      [] c[1] = "select_active_window" -> select_active_window(b)
      [] c[1] = "new_window" -> new_window(b, c[2], c[3], c[4])
      [] c[1] = "create_initial_window" -> create_initial_window(b, c[2], c[3])
      [] c[1] = "new_windows" -> new_windows(b, c[2], c[3])
      [] c[1] = "new_session" -> new_session(b, c[2])

into_command(b) == b.command

(***************************************************************************)
(* Inputs of the builder specification                                     *)
(***************************************************************************)
MaxWindows == 2      \* windows in one window list

TmuxPath == "tmux"
TmuxArgs == {<<>>, <<"-L", ";">>}

PaneBash == Pane(None, FALSE, Some("bash"), None)
PaneKeys == Pane(None, TRUE, None, Some(<<";", "ENTER">>))
PaneCwd == Pane(Some(Path(FALSE, <<"src">>)), TRUE, Some("bash"), None)

\* S1: a window named "w" whose root is the bare pane running bash.
WinS1 == Window(Some("w"), None, FALSE, SplitPane(PaneBash))
\* S2: right side sized 25%.
WinRight25 ==
    Window(None, None, TRUE,
           SplitH(HPart(None, DefaultSplit), HPart(Some("25%"), DefaultSplit)))
\* S3: left side sized 25%.
WinLeft25 ==
    Window(None, None, FALSE,
           SplitH(HPart(Some("25%"), DefaultSplit), HPart(None, DefaultSplit)))
WinKeys ==
    Window(Some("k"), Some(Path(FALSE, <<"code">>)), TRUE,
           SplitV(VPart(Some("10"), SplitPane(PaneKeys)), VPart(None, SplitPane(PaneCwd))))

\* Window lists: every list of at most MaxWindows windows over an inactive and an
\* active window, and the other windows alone.
ListWindows == {WinS1, WinRight25}
SingleWindows == {WinLeft25, WinKeys}

RECURSIVE SeqsOfLen(_, _)
SeqsOfLen(S, n) ==
    IF n = 0 THEN {<<>>}
    ELSE {<<x>> \o t : x \in S, t \in SeqsOfLen(S, n - 1)}

\* One list longer by one window, its first window the active one.
LongWindowList == <<WinRight25>> \o [i \in 1..MaxWindows |-> WinS1]

WindowLists ==
    UNION {SeqsOfLen(ListWindows, n) : n \in 0..MaxWindows}
        \cup {<<w>> : w \in SingleWindows}
        \cup {LongWindowList}

SessionCwd(name) == IF name = "s" THEN None ELSE Some(Path(TRUE, <<"home", "u">>))
SessionNames == {"s", "s2"}
Sessions == {Session(n, SessionCwd(n), ws) : n \in SessionNames, ws \in WindowLists}

S1Session == Session("s", None, <<WinS1>>)

\* Two sessions, each with every list of one to MaxWindows inactive or active windows.
ActiveWindowLists == UNION {SeqsOfLen(ListWindows, n) : n \in 1..MaxWindows}

SessionLists ==
    {<<>>,
     <<Session("s", None, <<>>)>>,
     <<Session("s", None, <<>>), Session("s2", None, <<>>)>>}
    \cup {<<Session("s", None, ws), Session("s2", SessionCwd("s2"), ws2)>> :
             ws \in ActiveWindowLists, ws2 \in ActiveWindowLists}

SelectedNames == {None, Some("s"), Some("s2")}
SessionSelectModes == {"Attach", "Switch", "Detached"}
QueryScopes == {"AllSessions", "CurrentSession", "CurrentWindow"}
QueryFormat == "#{q:session_id} #{q:window_id}"

(***************************************************************************)
(* The builder as a state machine: one action per public method.           *)
(***************************************************************************)
Builder ==
    [command |-> command, first_command |-> first_command,
     current_session_name |-> current_session_name,
     window_count |-> window_count, active_window_index |-> active_window_index,
     seps |-> seps, ncmds |-> ncmds]

SetBuilder(b, op) ==
    /\ command' = b.command
    /\ first_command' = b.first_command
    /\ current_session_name' = b.current_session_name
    /\ window_count' = b.window_count
    /\ active_window_index' = b.active_window_index
    /\ seps' = b.seps
    /\ ncmds' = b.ncmds
    /\ ops' = Append(ops, op)

IdleExec ==
    /\ xwindow = WinS1
    /\ xcmds = <<>>
    /\ tmux = [windows |-> <<>>, current |-> 0]
    /\ xlog = <<>>
    /\ xpc = "idle"

IdleSerde ==
    /\ sinput = <<>>
    /\ sdoc = <<>>
    /\ soutput = <<>>
    /\ sstage = "idle"

IdleBuilder ==
    /\ command = <<>>
    /\ first_command = TRUE
    /\ current_session_name = None
    /\ window_count = 0
    /\ active_window_index = None
    /\ seps = {}
    /\ ncmds = 0
    /\ ops = <<>>

\* TmuxCommandBuilder::new
Init ==
    /\ \E tmux_args \in TmuxArgs :
          LET b == NewBuilder(TmuxPath, tmux_args)
          IN  /\ command = b.command
              /\ first_command = b.first_command
              /\ current_session_name = b.current_session_name
              /\ window_count = b.window_count
              /\ active_window_index = b.active_window_index
              /\ seps = b.seps
              /\ ncmds = b.ncmds
              /\ ops = <<[op |-> "new", tmux_args |-> tmux_args]>>
    /\ IdleExec
    /\ IdleSerde
    /\ IdleRest

CanApply == Len(ops) <= MaxOps

QueryPanes ==
    /\ CanApply
    /\ \E scope \in QueryScopes :
          SetBuilder(query_panes(Builder, QueryFormat, scope),
                     [op |-> "query_panes", scope |-> scope])
    /\ UNCHANGED <<execVars, serdeVars, restVars>>

QueryClients ==
    /\ CanApply
    /\ SetBuilder(query_clients(Builder), [op |-> "query_clients"])
    /\ UNCHANGED <<execVars, serdeVars, restVars>>

SelectSession ==
    /\ CanApply
    /\ \E name \in SelectedNames, mode \in SessionSelectModes :
          SetBuilder(select_session(Builder, name, mode),
                     [op |-> "select_session", name |-> name, mode |-> mode])
    /\ UNCHANGED <<execVars, serdeVars, restVars>>

NewSession ==
    /\ CanApply
    /\ \E session \in Sessions :
          SetBuilder(new_session(Builder, session),
                     [op |-> "new_session", sessions |-> <<session>>])
    /\ UNCHANGED <<execVars, serdeVars, restVars>>

NewSessions ==
    /\ CanApply
    /\ \E sessions \in SessionLists :
          SetBuilder(new_sessions(Builder, sessions),
                     [op |-> "new_sessions", sessions |-> sessions])
    /\ UNCHANGED <<execVars, serdeVars, restVars>>

NewWindows ==
    /\ CanApply
    /\ \E windows \in WindowLists :
          SetBuilder(new_windows(Builder, windows, None),
                     [op |-> "new_windows", windows |-> windows])
    /\ UNCHANGED <<execVars, serdeVars, restVars>>

Next ==
    \/ QueryPanes
    \/ QueryClients
    \/ SelectSession
    \/ NewSession
    \/ NewSessions
    \/ NewWindows

Spec == Init /\ [][Next]_vars

(***************************************************************************)
(* The emitted argv as subcommands                                         *)
(***************************************************************************)
\* The elements of a set of numbers in increasing order.
Sorted(S) ==
    [i \in 1..Cardinality(S) |->
        CHOOSE x \in S : Cardinality({y \in S : y < x}) = i - 1]

\* The subcommands of argv `cmd` from position `from` on, cut at the separators
\* the builder pushed (positions `sp`).
SubcommandsOf(cmd, sp, from) ==
    IF Len(cmd) < from THEN <<>>
    ELSE LET cuts == <<from - 1>> \o Sorted(sp) \o <<Len(cmd) + 1>>
         IN  [i \in 1..(Len(cuts) - 1) |-> SubSeq(cmd, cuts[i] + 1, cuts[i + 1] - 1)]

(***************************************************************************)
(* The multiplexer: one window.  Its layout is a binary tree over pane ids *)
(* (`a` is the left/top part of a node, `b` the right/bottom part); a pane *)
(* keeps what its split-window gave it and the keys it was sent.           *)
(***************************************************************************)
Leaf(id) == [kind |-> "Leaf", id |-> id]
Node(kind, a, b) == [kind |-> kind, a |-> a, b |-> b]

RECURSIVE LeafIds(_)
LeafIds(layout) ==
    IF layout.kind = "Leaf" THEN <<layout.id>>
    ELSE LeafIds(layout.a) \o LeafIds(layout.b)

IdSet(layout) == {LeafIds(layout)[i] : i \in 1..Len(LeafIds(layout))}

\* split-window on pane `id`: the new pane goes right/below, or left/above with -b.
RECURSIVE SplitLeaf(_, _, _, _, _)
SplitLeaf(layout, id, kind, before, new) ==
    IF layout.kind = "Leaf"
    THEN IF layout.id = id
         THEN IF before THEN Node(kind, Leaf(new), layout) ELSE Node(kind, layout, Leaf(new))
         ELSE layout
    ELSE Node(layout.kind, SplitLeaf(layout.a, id, kind, before, new),
                           SplitLeaf(layout.b, id, kind, before, new))

\* kill-pane: the pane's sibling takes the place of their node.
RECURSIVE RemoveLeaf(_, _)
RemoveLeaf(layout, id) ==
    IF layout.kind = "Leaf" THEN layout
    ELSE IF layout.a = Leaf(id) THEN layout.b
    ELSE IF layout.b = Leaf(id) THEN layout.a
    ELSE Node(layout.kind, RemoveLeaf(layout.a, id), RemoveLeaf(layout.b, id))

\* The panes of `layout` that touch its `side` ("Left", "Right", "Up", "Down").
RECURSIVE Edge(_, _)
Edge(layout, side) ==
    IF layout.kind = "Leaf" THEN {layout.id}
    ELSE IF layout.kind = "H" /\ side = "Left" THEN Edge(layout.a, side)
    ELSE IF layout.kind = "H" /\ side = "Right" THEN Edge(layout.b, side)
    ELSE IF layout.kind = "V" /\ side = "Up" THEN Edge(layout.a, side)
    ELSE IF layout.kind = "V" /\ side = "Down" THEN Edge(layout.b, side)
    ELSE Edge(layout.a, side) \cup Edge(layout.b, side)

\* The panes next to pane `id` in direction `dir` inside `layout`: those across the
\* nearest division in that direction.  Which of them is meant depends on the
\* panes' sizes, which the layout tree leaves open.
RECURSIVE Adjacent(_, _, _)
Adjacent(layout, id, dir) ==
    IF layout.kind = "Leaf" THEN {}
    ELSE IF id \in IdSet(layout.a)
    THEN LET inner == Adjacent(layout.a, id, dir)
         IN  IF inner # {} THEN inner
             ELSE IF (layout.kind = "H" /\ dir = "Right") \/ (layout.kind = "V" /\ dir = "Down")
                  THEN Edge(layout.b, inverted(dir))
                  ELSE {}
    ELSE IF id \in IdSet(layout.b)
    THEN LET inner == Adjacent(layout.b, id, dir)
         IN  IF inner # {} THEN inner
             ELSE IF (layout.kind = "H" /\ dir = "Left") \/ (layout.kind = "V" /\ dir = "Up")
                  THEN Edge(layout.a, inverted(dir))
                  ELSE {}
    ELSE {}

\* select-pane -L/-R/-U/-D: an adjacent pane; at the window's edge the selection
\* wraps around to the panes on the opposite edge.
SelectCandidates(layout, id, dir) ==
    IF Adjacent(layout, id, dir) # {} THEN Adjacent(layout, id, dir)
    ELSE Edge(layout, dir)

\* The options of a subcommand: flags with a value, flags without, and the rest.
ValueFlags == {"-t", "-c", "-l", "-n", "-s", "-F"}
PlainFlags == {"-h", "-v", "-b", "-d", "-L", "-R", "-U", "-D", "-p", "-a"}

RECURSIVE ParseArgs(_, _)
ParseArgs(args, acc) ==
    IF args = <<>> THEN acc
    ELSE IF Head(args) \in ValueFlags /\ Len(args) >= 2
    THEN ParseArgs(SubSeq(args, 3, Len(args)),
                   [acc EXCEPT !.values = Append(@, <<args[1], args[2]>>)])
    ELSE IF Head(args) \in PlainFlags
    THEN ParseArgs(Tail(args), [acc EXCEPT !.flags = @ \cup {Head(args)}])
    ELSE ParseArgs(Tail(args), [acc EXCEPT !.rest = Append(@, Head(args))])

Parsed(cmd) == ParseArgs(Tail(cmd), [values |-> <<>>, flags |-> {}, rest |-> <<>>])

\* The last value given for `flag`, if any.
OptValue(parsed, flag) ==
    LET hits == SelectSeq(parsed.values, LAMBDA v : v[1] = flag)
    IN  IF hits = <<>> THEN None ELSE Some(Last(hits)[2])

NewTmuxWindow ==
    [layout |-> Leaf(0),
     active |-> 0,
     panes |-> <<[cmd |-> None, cwd |-> None, size |-> None, keys |-> <<>>]>>]

PaneRecord(t, id) == t.panes[id + 1]

TmuxSplitWindow(t, cmd) ==
    LET parsed == Parsed(cmd)
        new == Len(t.panes)
    IN  [layout |-> SplitLeaf(t.layout, t.active,
                              IF "-v" \in parsed.flags THEN "V" ELSE "H",
                              "-b" \in parsed.flags, new),
         active |-> new,
         panes |-> Append(t.panes,
                          [cmd |-> IF parsed.rest = <<>> THEN None ELSE Some(parsed.rest[1]),
                           cwd |-> OptValue(parsed, "-c"),
                           size |-> OptValue(parsed, "-l"),
                           keys |-> <<>>])]

\* The zero-based pane index a pane target `<session>:.<i>` names, if it names one.
TargetPaneIndex(t, target, session) ==
    LET n == Len(LeafIds(t.layout))
        hits == {i \in 0..(n - 1) :
                    target = DisplayPane(TargetPane(TargetCurrentWindow(
                                 IF is_some(session) THEN TargetSession(session[1])
                                 ELSE TargetDefault), ToString(i)))}
    IN  IF hits = {} THEN None ELSE Some(CHOOSE i \in hits : TRUE)

TmuxKillPane(t, cmd, session) ==
    LET idx == TargetPaneIndex(t, OptValue(Parsed(cmd), "-t")[1], session)
        id == LeafIds(t.layout)[idx[1] + 1]
        layout == RemoveLeaf(t.layout, id)
    IN  IF is_none(idx) \/ t.layout.kind = "Leaf" THEN t
        ELSE [t EXCEPT !.layout = layout,
                       !.active = IF t.active = id THEN LeafIds(layout)[1] ELSE @]

TmuxSendKeys(t, cmd) ==
    [t EXCEPT !.panes[t.active + 1].keys = @ \o Parsed(cmd).rest]

Directions == {"-L", "-R", "-U", "-D"}

FlagDirection(flag) ==
    CASE flag = "-L" -> "Left"
      [] flag = "-R" -> "Right"
      [] flag = "-U" -> "Up"
      [] flag = "-D" -> "Down"

\* The session: its windows in index order (index = position - 1) and the
\* position of the current window.
CurrentWindow(t) == t.windows[t.current]

OnCurrentWindow(t, w) == [t EXCEPT !.windows[t.current] = w]

\* new-session -d: a session with the one window the multiplexer creates itself.
TmuxNewSession == [windows |-> <<NewTmuxWindow>>, current |-> 1]

\* new-window: with -b -t <session>:0. the new window takes index 0 and the others
\* move up; otherwise it takes the next free index.  It becomes the current window.
TmuxNewWindow(t, cmd) ==
    IF "-b" \in Parsed(cmd).flags
    THEN [windows |-> <<NewTmuxWindow>> \o t.windows, current |-> 1]
    ELSE [windows |-> Append(t.windows, NewTmuxWindow), current |-> Len(t.windows) + 1]

\* The zero-based window index a window target `<session>:<i>.` names, if any.
TargetWindowIndex(t, target, session) ==
    LET hits == {i \in 0..(Len(t.windows) - 1) :
                    target = DisplayWindow(TargetWindow(
                                 IF is_some(session) THEN TargetSession(session[1])
                                 ELSE TargetDefault, ToString(i)))}
    IN  IF hits = {} THEN None ELSE Some(CHOOSE i \in hits : TRUE)

RemoveAt(seq, i) == SubSeq(seq, 1, i - 1) \o SubSeq(seq, i + 1, Len(seq))

TmuxKillWindow(t, cmd, session) ==
    LET idx == TargetWindowIndex(t, OptValue(Parsed(cmd), "-t")[1], session)
        pos == idx[1] + 1
    IN  IF is_none(idx) THEN t
        ELSE [windows |-> RemoveAt(t.windows, pos),
              current |-> IF t.current > pos THEN t.current - 1
                          ELSE IF t.current = pos THEN 1 ELSE t.current]

TmuxSelectWindow(t, cmd, session) ==
    LET parsed == Parsed(cmd)
        idx == TargetWindowIndex(t, OptValue(parsed, "-t")[1], session)
    IN  IF "-p" \in parsed.flags
        THEN [t EXCEPT !.current = IF @ = 1 THEN Len(t.windows) ELSE @ - 1]
        ELSE IF is_some(idx) THEN [t EXCEPT !.current = idx[1] + 1] ELSE t

\* The multiplexer states one subcommand can lead to.
TmuxExec(t, cmd, session) ==
    LET name == Head(cmd)
        w == CurrentWindow(t)
        parsed == Parsed(cmd)
        dirs == parsed.flags \cap Directions
    IN  CASE name = "new-session" -> {TmuxNewSession}
          [] name = "new-window" -> {TmuxNewWindow(t, cmd)}
          [] name = "kill-window" -> {TmuxKillWindow(t, cmd, session)}
          [] name = "select-window" -> {TmuxSelectWindow(t, cmd, session)}
          [] name = "split-window" -> {OnCurrentWindow(t, TmuxSplitWindow(w, cmd))}
          [] name = "kill-pane" -> {OnCurrentWindow(t, TmuxKillPane(w, cmd, session))}
          [] name = "send-keys" -> {OnCurrentWindow(t, TmuxSendKeys(w, cmd))}
          [] name = "select-pane" ->
                IF dirs # {}
                THEN {OnCurrentWindow(t, [w EXCEPT !.active = id]) :
                        id \in SelectCandidates(w.layout, w.active,
                                                FlagDirection(CHOOSE d \in dirs : TRUE))}
                ELSE LET idx == TargetPaneIndex(w, OptValue(parsed, "-t")[1], session)
                     IN  IF is_none(idx) THEN {t}
                         ELSE {OnCurrentWindow(t,
                                  [w EXCEPT !.active = LeafIds(w.layout)[idx[1] + 1]])}
          [] OTHER -> {t}

(***************************************************************************)
(* Inputs of the execution specification: every split tree of at most     *)
(* MaxPanes panes, every node H or V, every side sized or not; the panes   *)
(* run distinct shell commands "p0", "p1", ... from left/top to            *)
(* right/bottom, and at most two of them are flagged active.  The two      *)
(* windows of the sized-side scenarios (default panes) are inputs too.     *)
(***************************************************************************)
SizeHints == {None, Some("25%")}

MkSplit(kind, sa, sb, a, b) ==
    IF kind = "H" THEN SplitH(HPart(sa, a), HPart(sb, b))
    ELSE SplitV(VPart(sa, a), VPart(sb, b))

RECURSIVE ShapesOf(_)
ShapesOf(n) ==
    IF n = 1 THEN {DefaultSplit}
    ELSE UNION {{MkSplit(kind, sa, sb, a, b) :
                    kind \in {"H", "V"}, sa \in SizeHints, sb \in SizeHints,
                    a \in ShapesOf(k), b \in ShapesOf(n - k)} : k \in 1..(n - 1)}

FirstPart(split) == IF split.kind = "H" THEN split.left ELSE split.top
SecondPart(split) == IF split.kind = "H" THEN split.right ELSE split.bottom

RECURSIVE NumPanes(_)
NumPanes(split) ==
    IF split.kind = "Pane" THEN 1
    ELSE NumPanes(FirstPart(split).split) + NumPanes(SecondPart(split).split)

\* `split` with its panes replaced, from left/top to right/bottom, by `panes`.
RECURSIVE WithPanes(_, _)
WithPanes(split, panes) ==
    IF split.kind = "Pane" THEN SplitPane(panes[1])
    ELSE LET na == NumPanes(FirstPart(split).split)
             a == WithPanes(FirstPart(split).split, SubSeq(panes, 1, na))
             b == WithPanes(SecondPart(split).split, SubSeq(panes, na + 1, Len(panes)))
         IN  MkSplit(split.kind, SideSize(split, FirstPart(split)),
                     SideSize(split, SecondPart(split)), a, b)

PaneLabel(i) == "p" \o ToString(i)

\* Every other pane has a working directory of its own, relative to the window's;
\* the panes between them are sent keys, the first key naming the pane.
ExecPanes(n, actives) ==
    [i \in 1..n |->
        Pane(IF i % 2 = 0 THEN Some(Path(FALSE, <<PaneLabel(i - 1)>>)) ELSE None,
             (i - 1) \in actives, Some(PaneLabel(i - 1)),
             IF i % 2 = 1 THEN Some(<<PaneLabel(i - 1), "ENTER">>) ELSE None)]

ExecWindowCwd == Some(Path(TRUE, <<"w">>))

\* The largest trees are flagged at their second and last pane only.
ActiveSets(n) ==
    {A \in SUBSET (0..(n - 1)) :
        /\ Cardinality(A) <= 2
        /\ n = MaxPanes => A \subseteq {1, n - 1}}

\* The windows of `n` panes: every shape, every size hint, the flagged panes.
ExecWindows(n) ==
    {Window(None, ExecWindowCwd, FALSE, WithPanes(shape, ExecPanes(n, actives))) :
        shape \in ShapesOf(n), actives \in ActiveSets(n)}

\* Small windows named "h", with no working directory or a relative one: they are
\* created in a session that has a working directory.
ExecHomeName == Some("h")
ExecHomeWindows ==
    UNION {{Window(ExecHomeName, cwd, FALSE, WithPanes(shape, ExecPanes(n, {}))) :
               cwd \in {None, Some(Path(FALSE, <<"w">>))}, shape \in ShapesOf(n)} :
           n \in 1..2}

ExecSessionName == "s"
ExecSessionCwd == IF xwindow.name = ExecHomeName THEN Some(Path(TRUE, <<"h">>)) ELSE None
ExecSession == Session(ExecSessionName, ExecSessionCwd, <<xwindow>>)

ExecInit ==
    /\ IdleBuilder
    /\ IdleSerde
    /\ IdleRest
    /\ \/ \E n \in 1..MaxPanes : xwindow \in ExecWindows(n)
       \/ xwindow \in {WinRight25, WinLeft25}
       \/ xwindow \in ExecHomeWindows
    /\ xcmds = <<>>
    /\ tmux = [windows |-> <<>>, current |-> 0]
    /\ xlog = <<>>
    /\ xpc = "config"

\* The builder compiles the session; the argv is handed to the multiplexer.
XNewSession ==
    /\ xpc = "config"
    /\ LET b == new_session(NewBuilder(TmuxPath, <<>>), ExecSession)
       IN  xcmds' = SubcommandsOf(into_command(b), b.seps, 2)
    /\ xpc' = "run"
    /\ UNCHANGED <<xwindow, tmux, xlog, builderVars, serdeVars, restVars>>

\* The multiplexer executes the next subcommand.
XExec ==
    /\ xpc = "run"
    /\ xcmds # <<>>
    /\ \E t \in TmuxExec(tmux, Head(xcmds), Some(ExecSessionName)) :
          /\ tmux' = t
          /\ xlog' = Append(xlog, [cmd |-> Head(xcmds),
                                   active |-> IF t.windows = <<>> THEN 0
                                              ELSE CurrentWindow(t).active])
    /\ xcmds' = Tail(xcmds)
    /\ UNCHANGED <<xwindow, xpc, builderVars, serdeVars, restVars>>

XDone ==
    /\ xpc = "run"
    /\ xcmds = <<>>
    /\ xpc' = "done"
    /\ UNCHANGED <<xwindow, xcmds, tmux, xlog, builderVars, serdeVars, restVars>>

ExecNext ==
    \/ XNewSession
    \/ XExec
    \/ XDone

SpecExec == ExecInit /\ [][ExecNext]_vars

(***************************************************************************)
(* Comparing the multiplexer's window with the configured window.         *)
(* Arrangements are compared the way the multiplexer keeps them: a         *)
(* division nested in a division of the same axis is part of that         *)
(* division, so both trees are flattened to divisions of two or more       *)
(* parts before they are compared.                                         *)
(***************************************************************************)
PaneLeaf(cmd, cwd) == [kind |-> "Leaf", cmd |-> cmd, cwd |-> cwd]

RECURSIVE Flat(_)
Flat(tree) ==
    IF tree.kind = "Leaf" THEN tree
    ELSE LET fa == Flat(tree.a)
             fb == Flat(tree.b)
         IN  [kind |-> tree.kind,
              parts |-> (IF fa.kind = tree.kind THEN fa.parts ELSE <<fa>>)
                        \o (IF fb.kind = tree.kind THEN fb.parts ELSE <<fb>>)]

\* What the configuration asks for: each pane with its command and the working
\* directory it resolves to under the window's.
RECURSIVE ConfiguredLayout(_, _)
ConfiguredLayout(split, window_cwd) ==
    IF split.kind = "Pane"
    THEN LET cwd == joined(window_cwd, split.pane.cwd)
         IN  PaneLeaf(split.pane.shell_command,
                      IF is_some(cwd) THEN Some(PathStr(cwd[1])) ELSE None)
    ELSE Node(split.kind, ConfiguredLayout(FirstPart(split).split, window_cwd),
                          ConfiguredLayout(SecondPart(split).split, window_cwd))

\* What the multiplexer holds: each pane with the command and directory it was
\* created with.
RECURSIVE TmuxLayout(_, _)
TmuxLayout(w, layout) ==
    IF layout.kind = "Leaf"
    THEN PaneLeaf(PaneRecord(w, layout.id).cmd, PaneRecord(w, layout.id).cwd)
    ELSE Node(layout.kind, TmuxLayout(w, layout.a), TmuxLayout(w, layout.b))

ExecConfigured == ConfiguredLayout(xwindow.root_split, joined(ExecSession.cwd, xwindow.cwd))
ExecActual == TmuxLayout(CurrentWindow(tmux), CurrentWindow(tmux).layout)

\* The panes of the multiplexer's window in index order, by their commands.
TmuxPaneCmds(w) == [i \in 1..Len(LeafIds(w.layout)) |-> PaneRecord(w, LeafIds(w.layout)[i]).cmd]
ConfiguredPaneCmds(window) ==
    [i \in 1..Len(pane_iter(window.root_split)) |-> pane_iter(window.root_split)[i].shell_command]

\* Every subcommand of the session, executed or not, in emission order.
ExecStream == [i \in 1..Len(xlog) |-> xlog[i].cmd] \o xcmds

\* C1: once every emitted subcommand has executed, the session has one window and
\* its pane arrangement is the configured split tree, pane for pane.
C1_LayoutMatches ==
    xpc = "done" => /\ Len(tmux.windows) = 1
                    /\ Flat(ExecActual) = Flat(ExecConfigured)

\* C2: once every emitted subcommand has executed, the panes in index order are the
\* panes in pane_iter order, and the active pane is the first pane configured active.
C2_IndexOrder ==
    xpc = "done" =>
        /\ TmuxPaneCmds(CurrentWindow(tmux)) = ConfiguredPaneCmds(xwindow)
        /\ ActivePanes(xwindow) # <<>> =>
              PaneRecord(CurrentWindow(tmux), CurrentWindow(tmux).active).cmd
                  = pane_iter(xwindow.root_split)[ActivePanes(xwindow)[1] + 1].shell_command

(***************************************************************************)
(* Properties of the builder (specification Spec)                          *)
(***************************************************************************)
\* The argv the builder was constructed with, and what it has emitted since.
InitialCommand == <<TmuxPath>> \o ops[1].tmux_args
Emitted == SubcommandsOf(command, seps, Len(InitialCommand) + 1)

\* S1: new_session of the session "s" with the window "w" on a fresh builder.
S1Reached == Len(ops) = 2 /\ ops[2] = [op |-> "new_session", sessions |-> <<S1Session>>]

\* C3 as stated: in S1 the builder emits new-session -s s -d; new-window -n w
\* -t s: -b -t s:0; split-window -t s: -h bash; kill-pane -t s:.0; kill-window -t s:1.
C3_S1AsStated ==
    S1Reached =>
        Emitted = << <<"new-session", "-s", "s", "-d">>,
                     <<"new-window", "-n", "w", "-t", "s:", "-b", "-t", "s:0">>,
                     <<"split-window", "-t", "s:", "-h", "bash">>,
                     <<"kill-pane", "-t", "s:.0">>,
                     <<"kill-window", "-t", "s:1">> >>

\* C3 amended: in S1 the builder emits new-session -s s -d; new-window -n w -b
\* -t s:0.; split-window -t s: -h bash; kill-pane -t s:.0; kill-window -t s:1.
\* (one target on new-window, and window targets end with a dot).
C3_S1Emitted ==
    S1Reached =>
        Emitted = << <<"new-session", "-s", "s", "-d">>,
                     <<"new-window", "-n", "w", "-b", "-t", "s:0.">>,
                     <<"split-window", "-t", "s:", "-h", "bash">>,
                     <<"kill-pane", "-t", "s:.0">>,
                     <<"kill-window", "-t", "s:1.">> >>

C3_Witness == S1Reached /\ Len(Emitted) = 5

(***************************************************************************)
(* Properties of the emitted stream (specification SpecExec)               *)
(***************************************************************************)
\* The number of subcommands apply_split emits for a split.
RECURSIVE StreamLen(_)
StreamLen(split) ==
    IF split.kind = "Pane" THEN IF is_some(split.pane.send_keys) THEN 1 ELSE 0
    ELSE 2 + StreamLen(FirstPart(split).split) + StreamLen(SecondPart(split).split)

\* A node is inverted when its left/top side carries a size hint.
SizedFirst(split) == is_some(SideSize(split, FirstPart(split)))

\* For every split node below `split`, whose subcommands start after position
\* `offset` of the stream: where its split-window is and where the select-pane
\* after its child's subtree is.  The child is the right/bottom side, or the
\* left/top side when the node is inverted.
RECURSIVE SplitSites(_, _)
SplitSites(split, offset) ==
    IF split.kind = "Pane" THEN {}
    ELSE LET child == IF SizedFirst(split) THEN FirstPart(split) ELSE SecondPart(split)
             parent == IF SizedFirst(split) THEN SecondPart(split) ELSE FirstPart(split)
             back == offset + 2 + StreamLen(child.split)
         IN  {[node |-> split, at |-> offset + 1, back |-> back]}
                 \cup SplitSites(child.split, offset + 1)
                 \cup SplitSites(parent.split, back)

BackFlag(split) ==
    IF split.kind = "H" THEN IF SizedFirst(split) THEN "-R" ELSE "-L"
    ELSE IF SizedFirst(split) THEN "-D" ELSE "-U"

\* C4: a split node's flow is Inverted exactly when its left/top side is sized; its
\* split-window carries -b exactly then; the select-pane after its child's subtree
\* is -L/-U under Regular flow and -R/-D under Inverted flow; a right side of 25%
\* gives `split-window -t s: -h -l 25%`, `select-pane -t s: -L`, a left side of 25%
\* gives `split-window -t s: -h -b -l 25%`, `select-pane -t s: -R`.
C4_FlowAndCommands ==
    xpc \in {"run", "done"} =>
        \* new-session, new-window, split-window and kill-pane come first
        /\ \A site \in SplitSites(xwindow.root_split, 4) :
              LET split_window == ExecStream[site.at]
                  flags == Parsed(split_window).flags
              IN  /\ SplitFlowFrom(site.node)
                        = (IF SizedFirst(site.node) THEN "Inverted" ELSE "Regular")
                  /\ Head(split_window) = "split-window"
                  /\ ("-b" \in flags) <=> SizedFirst(site.node)
                  /\ ("-h" \in flags) <=> site.node.kind = "H"
                  /\ ("-v" \in flags) <=> site.node.kind = "V"
                  /\ ExecStream[site.back]
                        = <<"select-pane", "-t", "s:", BackFlag(site.node)>>
        /\ xwindow = WinRight25 =>
              /\ ExecStream[5] = <<"split-window", "-t", "s:", "-h", "-l", "25%">>
              /\ ExecStream[6] = <<"select-pane", "-t", "s:", "-L">>
        /\ xwindow = WinLeft25 =>
              /\ ExecStream[5] = <<"split-window", "-t", "s:", "-h", "-b", "-l", "25%">>
              /\ ExecStream[6] = <<"select-pane", "-t", "s:", "-R">>

\* The left side sized 25% has been compiled and executed: the new pane is on the left.
C4_Witness ==
    /\ xpc = "done"
    /\ xwindow = WinLeft25
    /\ LeafIds(CurrentWindow(tmux).layout) = <<2, 1>>

(***************************************************************************)
(* More properties of the builder (specification Spec)                     *)
(***************************************************************************)
CommandNames ==
    {"list-panes", "list-clients", "new-session", "new-window", "split-window",
     "kill-pane", "kill-window", "select-pane", "select-window", "send-keys",
     "switch-client", "attach-session"}

\* C5: the argv starts with the initial arguments; what follows is empty or a list
\* of subcommands, the first not preceded by a separator, each later one preceded by
\* exactly one ";"; the argv never ends with a separator and no two separators of
\* the builder are adjacent.
C5_SeparatorInvariant ==
    LET n0 == Len(InitialCommand)
        emitted == Emitted
    IN  /\ Len(command) >= n0
        /\ SubSeq(command, 1, n0) = InitialCommand
        /\ (Len(command) = n0) <=> (ncmds = 0)
        /\ ncmds = 0 => seps = {}
        /\ ncmds > 0 => Cardinality(seps) = ncmds - 1
        /\ \A p \in seps :
              /\ p > n0 + 1
              /\ p < Len(command)
              /\ command[p] = ";"
              /\ (p + 1) \notin seps
        /\ \A i \in 1..Len(emitted) :
              /\ emitted[i] # <<>>
              /\ Head(emitted[i]) \in CommandNames

\* Three subcommands, two separators, and a ";" that is a key, not a separator.
C5_Witness ==
    /\ Cardinality(seps) >= 2
    /\ \E p \in (Len(InitialCommand) + 1)..Len(command) : command[p] = ";" /\ p \notin seps
    /\ InitialCommand[Len(InitialCommand)] = ";"

WindowlessOp(o) ==
    /\ o.op \in {"new_session", "new_sessions"}
    /\ \A i \in 1..Len(o.sessions) : o.sessions[i].windows = <<>>

EmptyInputOp(o) == (o.op = "new_windows" /\ o.windows = <<>>) \/ WindowlessOp(o)

\* C6: after new_windows([]) and new_sessions of sessions without windows only, the
\* argv is the initial argv and no session is current; and sessions without windows
\* never change the argv or the current session name.
C6_EmptyInput ==
    /\ [](/\ Len(ops) >= 1
          /\ (\A i \in 2..Len(ops) : EmptyInputOp(ops[i])) =>
                /\ into_command(Builder) = InitialCommand
                /\ current_session_name = None)
    /\ [][Len(ops') = Len(ops) + 1 /\ WindowlessOp(Last(ops')) =>
             /\ command' = command
             /\ current_session_name' = current_session_name]_vars

C6_Witness ==
    /\ Len(ops) = 3
    /\ ops[2] = [op |-> "new_windows", windows |-> <<>>]
    /\ ops[3] = [op |-> "new_sessions",
                 sessions |-> <<Session("s", None, <<>>), Session("s2", None, <<>>)>>]
    /\ command = InitialCommand
    /\ current_session_name = None

\* C7: select_session appends `switch-client -t <name>:` in mode Switch,
\* `attach-session -t <name>:` in mode Attach, nothing in mode Detached; an absent
\* name gives the target `:`; whatever was emitted before is kept.
C7_SelectSession ==
    [][Len(ops') = Len(ops) + 1 /\ Last(ops').op = "select_session" =>
          LET o == Last(ops')
              sep == IF first_command THEN <<>> ELSE <<";">>
              target == (IF is_some(o.name) THEN o.name[1] ELSE "") \o ":"
          IN  /\ o.mode = "Detached" => command' = command /\ ncmds' = ncmds
              /\ o.mode = "Switch" =>
                    /\ command' = command \o sep \o <<"switch-client", "-t", target>>
                    /\ ncmds' = ncmds + 1
              /\ o.mode = "Attach" =>
                    /\ command' = command \o sep \o <<"attach-session", "-t", target>>
                    /\ ncmds' = ncmds + 1
              /\ current_session_name' = current_session_name]_vars

\* After the sessions, selecting "s2" in mode Switch: the stream ends with
\* `switch-client -t s2:`.
C7_Witness ==
    /\ Len(ops) = 3
    /\ ops[2].op = "new_sessions"
    /\ ops[3] = [op |-> "select_session", name |-> Some("s2"), mode |-> "Switch"]
    /\ Len(Emitted) > 1
    /\ Last(Emitted) = <<"switch-client", "-t", "s2:">>

(***************************************************************************)
(* Serialisation (model.rs:11-57, 211-307; cwd.rs:92-117).  A document is  *)
(* what both file formats carry: a map is a list of <<key, value>> entries *)
(* in emission order, a value is a string, a boolean, a list of strings, a *)
(* map or a list of maps.                                                  *)
(***************************************************************************)
Str(s) == [t |-> "str", v |-> s]
Bool(b) == [t |-> "bool", v |-> b]
List(l) == [t |-> "list", v |-> l]
Map(entries) == [t |-> "map", v |-> entries]
Maps(ms) == [t |-> "maps", v |-> ms]

SplitMap(left, right, top, bottom, cwd, active, shell_command, keys) ==
    [left |-> left, right |-> right, top |-> top, bottom |-> bottom,
     cwd |-> cwd, active |-> active, shell_command |-> shell_command,
     send_keys |-> keys]

DefaultSplitMap == SplitMap(None, None, None, None, None, FALSE, None, None)

SplitFromMapVFirst(map) ==
    IF is_some(map.top) \/ is_some(map.bottom)
    THEN SplitV(unwrap_or(map.top, DefaultVPart), unwrap_or(map.bottom, DefaultVPart))
    ELSE IF is_some(map.left) \/ is_some(map.right)
    THEN SplitH(unwrap_or(map.left, DefaultHPart), unwrap_or(map.right, DefaultHPart))
    ELSE SplitPane(Pane(map.cwd, map.active, map.shell_command, map.send_keys))

\* impl From<SplitMap> for Split
SplitFromMap(map) ==
    IF is_some(map.left) \/ is_some(map.right)
    THEN SplitH(unwrap_or(map.left, DefaultHPart), unwrap_or(map.right, DefaultHPart))
    ELSE IF is_some(map.top) \/ is_some(map.bottom)
    THEN SplitV(unwrap_or(map.top, DefaultVPart), unwrap_or(map.bottom, DefaultVPart))
    ELSE SplitPane(Pane(map.cwd, map.active, map.shell_command, map.send_keys))

\* impl From<Split> for SplitMap
SplitMapFromSplit(split) ==
    CASE split.kind = "Pane" ->
            [DefaultSplitMap EXCEPT !.cwd = split.pane.cwd,
                                    !.active = split.pane.active,
                                    !.shell_command = split.pane.shell_command,
                                    !.send_keys = split.pane.send_keys]
      [] split.kind = "H" ->
            [DefaultSplitMap EXCEPT !.left = Some(split.left), !.right = Some(split.right)]
      [] split.kind = "V" ->
            [DefaultSplitMap EXCEPT !.top = Some(split.top), !.bottom = Some(split.bottom)]

SplitMapFromRootKeepActive(root) == SplitMapFromSplit(root)

\* impl From<RootSplit> for SplitMap
SplitMapFromRoot(root) ==
    SplitMapFromSplit(IF root.kind = "Pane"
                      THEN [root EXCEPT !.pane.active = FALSE]
                      ELSE root)

\* impl From<SplitMap> for RootSplit
RootFromMap(map) == SplitFromMap(map)

is_default_sizeAlways(size) == TRUE

is_default_size(size) == is_none(size) \/ size[1] = "50%"

\* The entry a field contributes to its map, or none when the field is skipped.
SerCwd(key, cwd) ==
    IF CwdIsEmpty(cwd) THEN <<>> ELSE << <<key, Str(PathStr(cwd[1]))>> >>
SerOptStr(key, o) == IF is_none(o) THEN <<>> ELSE << <<key, Str(o[1])>> >>
SerSize(key, o) == IF is_default_size(o) THEN <<>> ELSE << <<key, Str(o[1])>> >>
SerFlag(key, b) == IF ~b THEN <<>> ELSE << <<key, Bool(b)>> >>
SerKeys(key, o) == IF is_none(o) THEN <<>> ELSE << <<key, List(o[1])>> >>

RECURSIVE SerSplitMap(_)
RECURSIVE SerHPart(_)
RECURSIVE SerVPart(_)
SerSplitMap(map) ==
    (IF is_some(map.left) THEN << <<"left", Map(SerHPart(map.left[1]))>> >> ELSE <<>>)
        \o (IF is_some(map.right) THEN << <<"right", Map(SerHPart(map.right[1]))>> >>
            ELSE <<>>)
        \o (IF is_some(map.top) THEN << <<"top", Map(SerVPart(map.top[1]))>> >> ELSE <<>>)
        \o (IF is_some(map.bottom) THEN << <<"bottom", Map(SerVPart(map.bottom[1]))>> >>
            ELSE <<>>)
        \o SerCwd("cwd", map.cwd)
        \o SerFlag("active", map.active)
        \o SerOptStr("shell_command", map.shell_command)
        \o SerKeys("send_keys", map.send_keys)

\* A side: its size, then the keys of its split, in the same map.
SerHPart(part) == SerSize("width", part.width) \o SerSplitMap(SplitMapFromSplit(part.split))
SerVPart(part) == SerSize("height", part.height) \o SerSplitMap(SplitMapFromSplit(part.split))

\* A window: its own keys, then the keys of its root split, in the same map.
SerWindow(window) ==
    SerOptStr("name", window.name)
        \o SerCwd("cwd", window.cwd)
        \o SerFlag("active", window.active)
        \o SerSplitMap(SplitMapFromRoot(window.root_split))

SerWindows(windows) == Maps([i \in 1..Len(windows) |-> SerWindow(windows[i])])

SerSession(session) ==
    << <<"name", Str(session.name)>> >>
        \o SerCwd("cwd", session.cwd)
        \o << <<"windows", SerWindows(session.windows)>> >>

Config(selected_session, sessions, windows) ==
    [selected_session |-> selected_session, sessions |-> sessions, windows |-> windows]

SerConfig(config) ==
    SerOptStr("selected_session", config.selected_session)
        \o (IF config.sessions = <<>> THEN <<>>
            ELSE << <<"sessions", Maps([i \in 1..Len(config.sessions) |->
                                           SerSession(config.sessions[i])])>> >>)
        \o (IF config.windows = <<>> THEN <<>>
            ELSE << <<"windows", SerWindows(config.windows)>> >>)

\* The values a map holds under `key`, in order, and the map without some keys.
Values(entries, key) ==
    LET hits == SelectSeq(entries, LAMBDA e : e[1] = key)
    IN  [i \in 1..Len(hits) |-> hits[i][2]]
Without(entries, keys) == SelectSeq(entries, LAMBDA e : e[1] \notin keys)
Has(entries, key) == Values(entries, key) # <<>>
Value(entries, key) == Last(Values(entries, key)).v

\* The paths of the inputs, and the home directory that `~` stands for.
HomeDir == <<"home", "u">>
SrcPath == Path(FALSE, <<"src">>)
WPath == Path(TRUE, <<"w">>)
EmptyPath == Path(FALSE, <<>>)
TildePath == Path(FALSE, <<"~", "x">>)
PathUniverse == {SrcPath, WPath, EmptyPath, TildePath, Path(TRUE, HomeDir \o <<"x">>)}

\* shellexpand::full on a path: a leading `~` becomes the home directory.
ExpandPath(path) ==
    IF ~path.abs /\ path.comps # <<>> /\ Head(path.comps) = "~"
    THEN Path(TRUE, HomeDir \o Tail(path.comps))
    ELSE path

\* The path a string spells.
PathFromString(s) == CHOOSE path \in PathUniverse : PathStr(path) = s

\* impl Deserialize for Cwd: an optional string, expanded, then From<String>.
DeCwd(entries, key) ==
    IF ~Has(entries, key) THEN None
    ELSE LET expanded == PathStr(ExpandPath(PathFromString(Value(entries, key))))
         IN  IF expanded = "" THEN None ELSE Some(PathFromString(expanded))

DeOptStr(entries, key) == IF Has(entries, key) THEN Some(Value(entries, key)) ELSE None
DeFlag(entries, key) == IF Has(entries, key) THEN Value(entries, key) ELSE FALSE

RECURSIVE DeSplitMap(_)
RECURSIVE DeHPart(_)
RECURSIVE DeVPart(_)
DeSplitMap(entries) ==
    SplitMap(IF Has(entries, "left") THEN Some(DeHPart(Value(entries, "left"))) ELSE None,
             IF Has(entries, "right") THEN Some(DeHPart(Value(entries, "right"))) ELSE None,
             IF Has(entries, "top") THEN Some(DeVPart(Value(entries, "top"))) ELSE None,
             IF Has(entries, "bottom") THEN Some(DeVPart(Value(entries, "bottom")))
             ELSE None,
             DeCwd(entries, "cwd"),
             DeFlag(entries, "active"),
             DeOptStr(entries, "shell_command"),
             DeOptStr(entries, "send_keys"))

\* A side takes its size; the other keys of the map are its split's.
DeHPart(entries) ==
    HPart(DeOptStr(entries, "width"), SplitFromMap(DeSplitMap(Without(entries, {"width"}))))
DeVPart(entries) ==
    VPart(DeOptStr(entries, "height"),
          SplitFromMap(DeSplitMap(Without(entries, {"height"}))))

Ok(v) == [ok |-> TRUE, v |-> <<v>>]
Err == [ok |-> FALSE, v |-> <<>>]

\* A window takes name, cwd and active; the other keys of the map are its root
\* split's.  A key that occurs twice is an error, or the later value replaces the
\* earlier one (`lenient`), depending on the format's library.
WindowKeys == {"name", "cwd", "active"}

DeWindow(entries, lenient) ==
    IF ~lenient /\ \E key \in WindowKeys : Len(Values(entries, key)) > 1
    THEN Err
    ELSE Ok(Window(DeOptStr(entries, "name"),
                   DeCwd(entries, "cwd"),
                   DeFlag(entries, "active"),
                   RootFromMap(DeSplitMap(Without(entries, WindowKeys)))))

DeWindows(maps, lenient) ==
    LET each == [i \in 1..Len(maps) |-> DeWindow(maps[i], lenient)]
    IN  IF \E i \in 1..Len(each) : ~each[i].ok THEN Err
        ELSE Ok([i \in 1..Len(each) |-> each[i].v[1]])

DeSession(entries, lenient) ==
    LET windows == DeWindows(Value(entries, "windows"), lenient)
    IN  IF ~Has(entries, "name") \/ ~Has(entries, "windows") \/ ~windows.ok THEN Err
        ELSE Ok(Session(Value(entries, "name"), DeCwd(entries, "cwd"), windows.v[1]))

DeConfig(entries, lenient) ==
    LET smaps == IF Has(entries, "sessions") THEN Value(entries, "sessions") ELSE <<>>
        sessions == [i \in 1..Len(smaps) |-> DeSession(smaps[i], lenient)]
        windows == IF Has(entries, "windows")
                   THEN DeWindows(Value(entries, "windows"), lenient)
                   ELSE Ok(<<>>)
    IN  IF ~windows.ok \/ \E i \in 1..Len(sessions) : ~sessions[i].ok THEN Err
        ELSE Ok(Config(DeOptStr(entries, "selected_session"),
                       [i \in 1..Len(sessions) |-> sessions[i].v[1]],
                       windows.v[1]))

(***************************************************************************)
(* Inputs of the serialisation specification                               *)
(***************************************************************************)
SerdePanes ==
    {DefaultPane,
     Pane(None, TRUE, Some("bash"), None),
     Pane(Some(SrcPath), FALSE, None, Some(<<"ls", "ENTER">>)),
     Pane(Some(EmptyPath), FALSE, Some("bash"), None),
     Pane(Some(TildePath), FALSE, None, None)}

SerdeSizes == {None, Some("50%"), Some("25%")}

\* Bare panes, splits of two panes, and splits with a split on one side.
SerdeFlatSplits ==
    {MkSplit(kind, sa, sb, SplitPane(a), SplitPane(b)) :
        kind \in {"H", "V"}, sa \in SerdeSizes, sb \in SerdeSizes,
        a \in SerdePanes, b \in SerdePanes}

SerdeInnerSplits ==
    {MkSplit(kind, None, Some("10"), SplitPane(a), DefaultSplit) :
        kind \in {"H", "V"}, a \in {DefaultPane, Pane(None, TRUE, Some("bash"), None)}}

SerdeNestedSplits ==
    {MkSplit(kind, Some("25%"), None, inner, SplitPane(Pane(None, TRUE, None, None))) :
        kind \in {"H", "V"}, inner \in SerdeInnerSplits}

SerdeSplits ==
    {SplitPane(pane) : pane \in SerdePanes} \cup SerdeFlatSplits \cup SerdeNestedSplits

SerdeWindows ==
    {Window(name, cwd, active, split) :
        name \in {None, Some("w")}, cwd \in {None, Some(WPath), Some(EmptyPath)},
        active \in BOOLEAN, split \in SerdeSplits}

\* A configuration holds its window at the top level or in a session.
SerdeConfigs ==
    {Config(None, <<>>, <<>>)}
        \cup {Config(None, <<>>, <<w>>) : w \in SerdeWindows}
        \cup {Config(Some("s"), <<Session("s", Some(SrcPath), <<w>>)>>, <<>>) :
                w \in SerdeWindows}

\* Flat maps as a document may spell them: any sides present, any leaf fields.
SerdeHParts == {HPart(None, DefaultSplit), HPart(Some("25%"), SplitPane(Pane(None, TRUE, None, None)))}
SerdeVParts == {VPart(None, DefaultSplit), VPart(Some("10"), SplitPane(Pane(None, FALSE, Some("bash"), None)))}
OptionOf(S) == {None} \cup {Some(x) : x \in S}

SerdeMaps ==
    {SplitMap(l, r, t, b, cwd, active, shell_command, keys) :
        l \in OptionOf(SerdeHParts), r \in OptionOf(SerdeHParts),
        t \in OptionOf(SerdeVParts), b \in OptionOf(SerdeVParts),
        cwd \in {None, Some(SrcPath)}, active \in BOOLEAN,
        shell_command \in {None, Some("bash")}, keys \in {None, Some(<<"ENTER">>)}}

(***************************************************************************)
(* The serialisation specification: a configuration is written and read    *)
(* back; a root split is turned into its flat map; a flat map is turned    *)
(* into a split.                                                           *)
(***************************************************************************)
SerdeInit ==
    /\ IdleBuilder
    /\ IdleRest
    /\ xwindow = WinS1
    /\ xcmds = <<>>
    /\ tmux = [windows |-> <<>>, current |-> 0]
    /\ xlog = <<>>
    /\ xpc = "idle"
    /\ sdoc = <<>>
    /\ soutput = <<>>
    /\ \/ sstage = "config" /\ sinput \in {<<c>> : c \in SerdeConfigs}
       \/ sstage = "root" /\ sinput \in {<<r>> : r \in SerdeSplits}
       \/ sstage = "map" /\ sinput \in {<<m>> : m \in SerdeMaps}

\* to_string(&config)
Serialise ==
    /\ sstage = "config"
    /\ sdoc' = SerConfig(sinput[1])
    /\ sstage' = "serialised"
    /\ UNCHANGED <<sinput, soutput, builderVars, execVars, restVars>>

\* from_str::<PartialConfig>(..).into_config()
Deserialise ==
    /\ sstage = "serialised"
    /\ \E lenient \in BOOLEAN : soutput' = <<DeConfig(sdoc, lenient)>>
    /\ sstage' = "deserialised"
    /\ UNCHANGED <<sinput, sdoc, builderVars, execVars, restVars>>

\* SplitMap::from(root)
RootIntoMap ==
    /\ sstage = "root"
    /\ soutput' = <<SplitMapFromRoot(sinput[1])>>
    /\ sstage' = "mapped"
    /\ UNCHANGED <<sinput, sdoc, builderVars, execVars, restVars>>

\* Split::from(map)
MapIntoSplit ==
    /\ sstage = "map"
    /\ soutput' = <<SplitFromMap(sinput[1])>>
    /\ sstage' = "converted"
    /\ UNCHANGED <<sinput, sdoc, builderVars, execVars, restVars>>

SerdeNext ==
    \/ Serialise
    \/ Deserialise
    \/ RootIntoMap
    \/ MapIntoSplit

SpecSerde == SerdeInit /\ [][SerdeNext]_vars

(***************************************************************************)
(* Properties of serialisation (specification SpecSerde)                   *)
(***************************************************************************)
\* C8 as stated: every configuration, whatever its sizes, active flags and working
\* directories, is read back as it was written.
C8_RoundTripAsStated ==
    sstage = "deserialised" => soutput[1].ok /\ soutput[1].v = sinput

\* What a working directory must be to survive: absent, or a non-empty path that
\* shell expansion leaves alone.
PlainCwd(cwd) == is_none(cwd) \/ (~CwdIsEmpty(cwd) /\ Head(cwd[1].comps) # "~")

RECURSIVE PlainSplit(_)
PlainSplit(split) ==
    IF split.kind = "Pane" THEN PlainCwd(split.pane.cwd)
    ELSE /\ SideSize(split, FirstPart(split)) # Some("50%")
         /\ SideSize(split, SecondPart(split)) # Some("50%")
         /\ PlainSplit(FirstPart(split).split)
         /\ PlainSplit(SecondPart(split).split)

PlainWindow(window) ==
    /\ PlainCwd(window.cwd)
    /\ PlainSplit(window.root_split)
    /\ window.root_split.kind = "Pane" =>
          /\ ~window.root_split.pane.active
          /\ is_none(window.root_split.pane.cwd)

PlainConfig(config) ==
    /\ \A i \in 1..Len(config.windows) : PlainWindow(config.windows[i])
    /\ \A i \in 1..Len(config.sessions) :
          /\ PlainCwd(config.sessions[i].cwd)
          /\ \A j \in 1..Len(config.sessions[i].windows) :
                PlainWindow(config.sessions[i].windows[j])

\* C8 amended: a configuration is read back as it was written when no side is sized
\* "50%", every working directory is absent or a non-empty path without shell
\* expansions, and every bare root pane is inactive and has no working directory.
C8_RoundTrip ==
    sstage = "deserialised" /\ PlainConfig(sinput[1]) =>
        soutput[1].ok /\ soutput[1].v = sinput

\* A session's active window with a directory, split with a sized side, an active
\* pane and a pane with a directory and keys, has been written and read back.
C8_Witness ==
    /\ sstage = "deserialised"
    /\ PlainConfig(sinput[1])
    /\ sinput[1].sessions # <<>>
    /\ LET w == sinput[1].sessions[1].windows[1]
       IN  /\ w.active
           /\ w.cwd = Some(WPath)
           /\ w.root_split.kind = "V"
           /\ w.root_split.top.height = Some("25%")
           /\ w.root_split.top.split.pane.active
           /\ w.root_split.bottom.split.pane.cwd = Some(SrcPath)
    /\ Has(sdoc, "sessions")

\* C9: the flat map of a root split has `active` false when the root is a bare pane,
\* with the pane's other fields as they are; the flat map of an H or V root holds
\* the two sides as they are, so no pane's active flag below changes.
C9_RootActiveZeroed ==
    sstage = "mapped" =>
        LET root == sinput[1]
            map == soutput[1]
        IN  /\ root.kind = "Pane" =>
                  map = SplitMap(None, None, None, None, root.pane.cwd, FALSE,
                                 root.pane.shell_command, root.pane.send_keys)
            /\ root.kind = "H" =>
                  map = SplitMap(Some(root.left), Some(root.right), None, None,
                                 None, FALSE, None, None)
            /\ root.kind = "V" =>
                  map = SplitMap(None, None, Some(root.top), Some(root.bottom),
                                 None, FALSE, None, None)

\* An active bare root pane has been mapped.
C9_Witness ==
    /\ sstage = "mapped"
    /\ sinput[1].kind = "Pane"
    /\ sinput[1].pane.active
    /\ ~soutput[1].active
    /\ soutput[1].shell_command = Some("bash")

EmptyPane == Pane(None, FALSE, None, None)

\* C10: a flat map with `left` or `right` becomes an H split, whatever else it
\* holds, a missing side being a side without size holding the default pane;
\* otherwise one with `top` or `bottom` becomes a V split the same way; otherwise
\* it becomes the pane with the map's cwd, active, shell_command and send_keys.
C10_Discrimination ==
    sstage = "converted" =>
        LET map == sinput[1]
            split == soutput[1]
        IN  IF is_some(map.left) \/ is_some(map.right)
            THEN /\ split.kind = "H"
                 /\ split.left = IF is_some(map.left) THEN map.left[1]
                                 ELSE HPart(None, SplitPane(EmptyPane))
                 /\ split.right = IF is_some(map.right) THEN map.right[1]
                                  ELSE HPart(None, SplitPane(EmptyPane))
            ELSE IF is_some(map.top) \/ is_some(map.bottom)
            THEN /\ split.kind = "V"
                 /\ split.top = IF is_some(map.top) THEN map.top[1]
                                ELSE VPart(None, SplitPane(EmptyPane))
                 /\ split.bottom = IF is_some(map.bottom) THEN map.bottom[1]
                                   ELSE VPart(None, SplitPane(EmptyPane))
            ELSE /\ split.kind = "Pane"
                 /\ split.pane.cwd = map.cwd
                 /\ split.pane.active = map.active
                 /\ split.pane.shell_command = map.shell_command
                 /\ split.pane.send_keys = map.send_keys

\* A map with only `right` among left/right, and `top` too, has become an H split
\* with an empty left side.
C10_Witness ==
    /\ sstage = "converted"
    /\ is_none(sinput[1].left)
    /\ is_some(sinput[1].right)
    /\ is_some(sinput[1].top)
    /\ soutput[1].kind = "H"
    /\ soutput[1].left = HPart(None, SplitPane(EmptyPane))

(***************************************************************************)
(* Cwd::joined on every pair of working directories (cwd.rs:17-31)         *)
(***************************************************************************)
RECURSIVE SeqsUpTo(_, _)
SeqsUpTo(S, n) ==
    IF n = 0 THEN {<<>>}
    ELSE LET shorter == SeqsUpTo(S, n - 1)
         IN  shorter \cup {Append(q, x) : q \in {r \in shorter : Len(r) = n - 1}, x \in S}

CwdValues ==
    {None} \cup {Some(Path(abs, comps)) :
                    abs \in BOOLEAN, comps \in SeqsUpTo({"a", "b"}, MaxComps)}

CwdInit ==
    /\ IdleBuilder
    /\ IdleExec
    /\ IdleSerde
    /\ IdleLoad
    /\ IdleLayout
    /\ IdleImport
    /\ jself \in CwdValues
    /\ jother \in CwdValues
    /\ jresult = <<>>
    /\ jpc = "call"

\* self.joined(&other): both operands are borrowed.
Joined ==
    /\ jpc = "call"
    /\ jresult' = <<joined(jself, jother)>>
    /\ jpc' = "done"
    /\ UNCHANGED <<jself, jother, builderVars, execVars, serdeVars,
                   loadVars, layoutVars, importVars>>

CwdNext == Joined

SpecCwd == CwdInit /\ [][CwdNext]_vars

\* An empty path and the absent value are the same working directory.
CwdNorm(cwd) == IF CwdIsEmpty(cwd) THEN None ELSE cwd

\* C11: join(parent, child) is child when child is absolute, parent when child
\* is absent, child when parent is absent, and otherwise parent's components
\* followed by child's (an empty path being the absent value); the operands
\* are the same before and after the call.
C11_Joined ==
    /\ [](jpc = "done" =>
            LET r == jresult[1]
            IN  /\ (is_some(jother) /\ jother[1].abs) => r = jother
                /\ is_none(jother) => r = jself
                /\ is_none(jself) => r = jother
                /\ (is_some(jself) /\ is_some(jother) /\ ~jother[1].abs) =>
                      CwdNorm(r) = CwdNorm(Some([abs |-> jself[1].abs,
                                                 comps |-> jself[1].comps
                                                           \o jother[1].comps])))
    /\ [][jself' = jself /\ jother' = jother]_vars

\* A relative child was appended to a present parent.
C11_Witness ==
    /\ jpc = "done"
    /\ is_some(jself) /\ is_some(jother)
    /\ ~jother[1].abs /\ jother[1].comps # <<>> /\ jself[1].comps # <<>>
    /\ jresult[1] # jself /\ jresult[1] # jother

(***************************************************************************)
(* load_config_at (config/loader.rs:12-75): a file and the files it        *)
(* includes, merged.  The recursion is a stack of calls, each with the    *)
(* configuration merged so far and the includes it has still to load.      *)
(***************************************************************************)
MaxDepth == 3        \* nested load_config_at calls

FileA == Path(TRUE, <<"d", "a.yml">>)
FileB == Path(TRUE, <<"d", "b.toml">>)
FileC == Path(TRUE, <<"d", "c.txt">>)

\* An include whose shell expansion fails: it names a variable that is not set.
Include(path) == [unset |-> FALSE, path |-> path]
UnsetVarInclude == [unset |-> TRUE, path |-> Path(FALSE, <<"$UNSET", "x.yml">>)]

\* shellexpand::full on an include: a variable that is not set is an error, and
\* the other includes have nothing to expand.
ExpandInclude(include) == IF include.unset THEN Err ELSE Ok(include.path)

\* path.parent().unwrap().join(included): an absolute include replaces the parent.
IncludedPath(path, included) ==
    LET parent == Path(path.abs, Front(path.comps))
    IN  IF is_absolute(included) THEN included ELSE PathJoin(parent, included)

\* Path::extension of the file name.
Extension(path) ==
    LET name == Last(path.comps)
    IN  CASE name = "a.yml" -> Some("yml")
          [] name = "x.yaml" -> Some("yaml")
          [] name = "b.toml" -> Some("toml")
          [] name = "c.txt" -> Some("txt")
          [] OTHER -> None

PartialConfig(includes, selected_session, sessions, windows) ==
    [includes |-> includes, selected_session |-> selected_session,
     sessions |-> sessions, windows |-> windows]

\* The file's content: a document of its format, or bytes that are none.
Document(partial) == <<partial>>
Unparsable == <<>>

load_partial_config_at(fs, path) ==
    IF path \notin DOMAIN fs THEN Err
    ELSE IF Extension(path) \in {Some("toml"), Some("yml"), Some("yaml")}
         THEN IF fs[path] = Unparsable THEN Err ELSE Ok(fs[path][1])
         ELSE Err

\* A call of load_config_at that has loaded its own file.
Frame(path, partial) ==
    [path |-> path,
     config |-> Config(partial.selected_session, partial.sessions, partial.windows),
     includes |-> partial.includes]

\* The merge of an included configuration into the including one.
Merge(config, included) ==
    Config(IF is_some(included.selected_session) /\ is_none(config.selected_session)
           THEN included.selected_session ELSE config.selected_session,
           config.sessions \o included.sessions,
           config.windows \o included.windows)

LoadSessions == {<<>>, <<Session("s", None, <<WinS1>>)>>,
                 <<Session("s", None, <<WinS1>>), Session("t", None, <<WinS1>>)>>,
                 <<Session("t", None, <<WinS1>>)>>}

LoadIncludes ==
    {<<>>, <<Include(Path(FALSE, <<"b.toml">>))>>, <<Include(FileA)>>,
     <<Include(Path(FALSE, <<"b.toml">>)), Include(Path(FALSE, <<"b.toml">>))>>,
     <<Include(Path(FALSE, <<"c.txt">>))>>, <<Include(Path(FALSE, <<"x.yaml">>))>>,
     <<UnsetVarInclude>>}

LoadContents ==
    {Document(PartialConfig(includes, selected, sessions, windows)) :
        includes \in LoadIncludes, selected \in {None, Some("s")},
        sessions \in LoadSessions, windows \in {<<>>, <<WinS1>>}}
    \cup {Unparsable}

LoadInit ==
    /\ IdleBuilder
    /\ IdleExec
    /\ IdleSerde
    /\ IdleCwd
    /\ IdleLayout
    /\ IdleImport
    /\ \E a \in LoadContents, b \in LoadContents :
          files = (FileA :> a) @@ (FileB :> b) @@ (FileC :> Unparsable)
    /\ lstack = <<>>
    /\ lresult = <<>>
    /\ lpc = "start"

\* load_config_at(path), up to its loop over the includes.
LoadStart ==
    /\ lpc = "start"
    /\ LET partial == load_partial_config_at(files, FileA)
       IN  IF partial.ok
           THEN /\ lstack' = <<Frame(FileA, partial.v[1])>>
                /\ lpc' = "run"
                /\ UNCHANGED lresult
           ELSE /\ lresult' = <<Err>>
                /\ lpc' = "done"
                /\ UNCHANGED lstack
    /\ UNCHANGED <<files, builderVars, execVars, serdeVars, cwdVars, layoutVars, importVars>>

\* The next include of the innermost call: its own load_config_at begins, or an
\* error ends every call.
LoadInclude ==
    /\ lpc = "run"
    /\ Len(lstack) < MaxDepth
    /\ Last(lstack).includes # <<>>
    /\ LET top == Last(lstack)
           expanded == ExpandInclude(Head(top.includes))
           included_path == IncludedPath(top.path, expanded.v[1])
           partial == load_partial_config_at(files, included_path)
           waiting == [top EXCEPT !.includes = Tail(@)]
       IN  IF expanded.ok /\ partial.ok
           THEN /\ lstack' = Append([lstack EXCEPT ![Len(lstack)] = waiting],
                                    Frame(included_path, partial.v[1]))
                /\ UNCHANGED <<lresult, lpc>>
           ELSE /\ lresult' = <<Err>>
                /\ lpc' = "done"
                /\ lstack' = <<>>
    /\ UNCHANGED <<files, builderVars, execVars, serdeVars, cwdVars, layoutVars, importVars>>

\* The innermost call has no include left: it returns its configuration, which the
\* calling one merges into its own.
LoadReturn ==
    /\ lpc = "run"
    /\ Last(lstack).includes = <<>>
    /\ IF Len(lstack) = 1
       THEN /\ lresult' = <<Ok(lstack[1].config)>>
            /\ lpc' = "done"
            /\ lstack' = <<>>
       ELSE /\ lstack' = [Front(lstack) EXCEPT ![Len(lstack) - 1].config =
                              Merge(@, Last(lstack).config)]
            /\ UNCHANGED <<lresult, lpc>>
    /\ UNCHANGED <<files, builderVars, execVars, serdeVars, cwdVars, layoutVars, importVars>>

LoadNext ==
    \/ LoadStart
    \/ LoadInclude
    \/ LoadReturn

SpecLoad == LoadInit /\ [][LoadNext]_vars

Loaded == lpc = "done" /\ lresult[1].ok

\* C12: after load_config_at has merged a file with all its included files, no
\* two entries of config.sessions have the same name.
C12_UniqueSessionNames ==
    Loaded =>
        LET sessions == lresult[1].v[1].sessions
        IN  \A i, j \in 1..Len(sessions) :
                sessions[i].name = sessions[j].name => i = j

(***************************************************************************)
(* Active pane and active window (specifications SpecExec and Spec)        *)
(***************************************************************************)
\* The subcommands of `stream` that select a pane by its index, not by a direction.
IndexedSelectPanes(stream) ==
    {i \in 1..Len(stream) : stream[i][1] = "select-pane" /\ Len(stream[i]) = 3}

\* The zero-based positions, in pane_iter order, of the panes flagged active.
FlaggedPanes(window) ==
    {i \in 0..(Len(pane_iter(window.root_split)) - 1) :
        pane_iter(window.root_split)[i + 1].active}

\* C13: for a window, select_active_pane emits at most one select-pane; it emits
\* one exactly when some pane is flagged active, and its target is <session>:.<i>
\* for the first flagged pane in pane_iter order, however many panes are flagged.
C13_ActivePane ==
    xpc \in {"run", "done"} =>
        LET selects == IndexedSelectPanes(ExecStream)
            flagged == FlaggedPanes(xwindow)
        IN  /\ Cardinality(selects) <= 1
            /\ (selects # {}) <=> (flagged # {})
            /\ \A i \in selects :
                  \E first \in flagged :
                      /\ \A other \in flagged : first <= other
                      /\ ExecStream[i] = <<"select-pane", "-t",
                                           ExecSessionName \o ":." \o ToString(first)>>

\* Two panes are flagged, and the first of them is not the window's first pane.
C13_Witness ==
    /\ xpc = "done"
    /\ Cardinality(FlaggedPanes(xwindow)) = 2
    /\ 0 \notin FlaggedPanes(xwindow)
    /\ IndexedSelectPanes(ExecStream) # {}

\* The sessions given to new_sessions (or the one given to new_session) on a fresh
\* builder, those that have windows: only they emit anything.
SessionsApplied == Len(ops) = 2 /\ ops[2].op \in {"new_session", "new_sessions"}

SessionsReached ==
    IF SessionsApplied
    THEN SelectSeq(ops[2].sessions, LAMBDA session : session.windows # <<>>)
    ELSE <<>>

\* Where the subcommands of the k-th session start: at its new-session.
SessionStarts == Sorted({i \in 1..Len(Emitted) : Emitted[i][1] = "new-session"})

\* The subcommands of the k-th session.
SessionStream(k) ==
    SubSeq(Emitted, SessionStarts[k],
           IF k < Len(SessionStarts) THEN SessionStarts[k + 1] - 1 ELSE Len(Emitted))

\* The zero-based positions of the session's windows flagged active.
FlaggedWindows(session) ==
    {i \in 0..(Len(session.windows) - 1) : session.windows[i + 1].active}

\* Each session emits one select-window if it has a window flagged active, and
\* none otherwise; the select-window is the session's last subcommand and its
\* target is Shown(session name, position of the first flagged window).
ActiveWindowSelected(Shown(_, _)) ==
    SessionsApplied =>
    /\ Len(SessionStarts) = Len(SessionsReached)
    /\ \A k \in 1..Len(SessionsReached) :
          LET session == SessionsReached[k]
              stream == SessionStream(k)
              selects == {i \in 1..Len(stream) : stream[i][1] = "select-window"}
              flagged == FlaggedWindows(session)
          IN  /\ stream[1][3] = session.name
              /\ Cardinality(selects) = IF flagged = {} THEN 0 ELSE 1
              /\ \A i \in selects :
                    /\ i = Len(stream)
                    /\ \E first \in flagged :
                          /\ \A other \in flagged : first <= other
                          /\ stream[i] = <<"select-window", "-t",
                                           Shown(session.name, first)>>

\* C14 as stated: the target of the select-window is <session>:<index>.
C14_ActiveWindowAsStated ==
    ActiveWindowSelected(LAMBDA name, index : name \o ":" \o ToString(index))

\* C14 amended: each session with a window flagged active gets exactly one
\* select-window -t <session>:<index>. (with the dot that ends a window target),
\* after all its windows, for the first flagged window of its own list; a session
\* with no flagged window gets none, whatever the sessions before it had.
C14_ActiveWindow ==
    ActiveWindowSelected(LAMBDA name, index : name \o ":" \o ToString(index) \o ".")

\* The first session's second window is active and the second session has no
\* active window: only the first session selects a window.
C14_Witness ==
    /\ Len(SessionsReached) = 2
    /\ FlaggedWindows(SessionsReached[1]) = {1}
    /\ FlaggedWindows(SessionsReached[2]) = {}
    /\ Last(SessionStream(1)) = <<"select-window", "-t", "s:1.">>

(***************************************************************************)
(* Layout descriptors (tmux/layout.rs).  A string is the sequence of its   *)
(* characters.  A u32 is kept as its decimal digits without leading zeros, *)
(* so that every value up to 4294967295 has one.  A parser returns what it *)
(* parsed and the input it left, or fails.                                 *)
(***************************************************************************)
DigitChars == <<"0", "1", "2", "3", "4", "5", "6", "7", "8", "9">>
IsDigit(c) == \E d \in 1..10 : DigitChars[d] = c
DigitVal(c) == (CHOOSE d \in 1..10 : DigitChars[d] = c) - 1

\* u32::MAX
U32MaxDigits == <<"4", "2", "9", "4", "9", "6", "7", "2", "9", "5">>

RECURSIVE StripZeros(_)
StripZeros(ds) ==
    IF Len(ds) > 1 /\ ds[1] = "0" THEN StripZeros(Tail(ds)) ELSE ds

\* a <= b for digit sequences of the same length.
RECURSIVE DigitsLeq(_, _)
DigitsLeq(a, b) ==
    IF a = <<>> THEN TRUE
    ELSE IF DigitVal(a[1]) # DigitVal(b[1]) THEN DigitVal(a[1]) < DigitVal(b[1])
    ELSE DigitsLeq(Tail(a), Tail(b))

\* a < b for u32 values.
U32Less(a, b) ==
    \/ Len(a) < Len(b)
    \/ Len(a) = Len(b) /\ a # b /\ DigitsLeq(a, b)

\* checked_mul / checked_add over the digits: the value fits 32 bits.
FitsU32(ds) ==
    LET n == StripZeros(ds)
    IN  Len(n) < 10 \/ (Len(n) = 10 /\ DigitsLeq(n, U32MaxDigits))

\* The number a u32 stands for, for the numbers the model computes with.
RECURSIVE NatOf(_)
NatOf(ds) == IF ds = <<>> THEN 0 ELSE 10 * NatOf(Front(ds)) + DigitVal(Last(ds))

RECURSIVE U32(_)
U32(n) == IF n < 10 THEN <<DigitChars[n + 1]>> ELSE U32(n \div 10) \o <<DigitChars[(n % 10) + 1]>>

Size(width, height) == [width |-> width, height |-> height]
PaneGeom(size0, x_offset, y_offset) ==
    [size |-> size0, x_offset |-> x_offset, y_offset |-> y_offset]
LayoutPane(geom) == [kind |-> "Pane", geom |-> geom]
LayoutH(geom, splits) == [kind |-> "H", geom |-> geom, splits |-> splits]
LayoutV(geom, splits) == [kind |-> "V", geom |-> geom, splits |-> splits]

Fail == [ok |-> FALSE, v |-> <<>>, rest |-> <<>>]
Done(v, rest) == [ok |-> TRUE, v |-> <<v>>, rest |-> rest]

From(i, n) == SubSeq(i, n, Len(i))

\* nom::bytes::complete::tag
tag(t, i) ==
    IF Len(i) >= Len(t) /\ SubSeq(i, 1, Len(t)) = t
    THEN Done(t, From(i, Len(t) + 1))
    ELSE Fail

RECURSIVE SpanDigits(_)
SpanDigits(i) == IF i = <<>> \/ ~IsDigit(i[1]) THEN 0 ELSE 1 + SpanDigits(Tail(i))

\* nom::character::complete::digit1
digit1(i) ==
    LET n == SpanDigits(i)
    IN  IF n = 0 THEN Fail ELSE Done(SubSeq(i, 1, n), From(i, n + 1))

\* nom::character::complete::u32: every leading digit, and an error on overflow.
u32(i) ==
    LET n == SpanDigits(i)
    IN  IF n = 0 \/ ~FitsU32(SubSeq(i, 1, n)) THEN Fail
        ELSE Done(StripZeros(SubSeq(i, 1, n)), From(i, n + 1))

\* A parser after another: `Parser` is given what `r` parsed and the input it left.
AndThen(r, Parser(_, _)) == IF r.ok THEN Parser(r.v[1], r.rest) ELSE Fail

\* nom::branch::alt: the first parser that succeeds.
Alt(r, other) == IF r.ok THEN r ELSE other

\* nom::combinator::all_consuming
all_consuming(r) == IF r.ok /\ r.rest = <<>> THEN r ELSE Fail

size(i) ==
    AndThen(u32(i), LAMBDA w, i1 :
    AndThen(tag(<<"x">>, i1), LAMBDA x, i2 :
    AndThen(u32(i2), LAMBDA h, i3 : Done(Size(w, h), i3))))

\* take_until(","), take(1): the checksum is whatever precedes the first comma.
checksum(i) ==
    LET commas == {p \in 1..Len(i) : i[p] = ","}
    IN  IF commas = {} THEN Fail
        ELSE Done(<<>>, From(i, (CHOOSE p \in commas : \A q \in commas : p <= q) + 1))

pane_geom(i) ==
    AndThen(size(i), LAMBDA s, i1 :
    AndThen(tag(<<",">>, i1), LAMBDA c1, i2 :
    AndThen(u32(i2), LAMBDA x, i3 :
    AndThen(tag(<<",">>, i3), LAMBDA c2, i4 :
    AndThen(u32(i4), LAMBDA y, i5 : Done(PaneGeom(s, x, y), i5))))))

pane_split(i) ==
    AndThen(pane_geom(i), LAMBDA g, i1 :
    AndThen(tag(<<",">>, i1), LAMBDA c, i2 :
    AndThen(digit1(i2), LAMBDA d, i3 : Done(LayoutPane(g), i3))))

RECURSIVE split(_)

\* separated_list1(tag(","), split) after its first element: a separator that
\* no element follows is left in the input.
RECURSIVE separated_more(_, _)
separated_more(i, res) ==
    Alt(AndThen(tag(<<",">>, i), LAMBDA s, i1 :
        AndThen(split(i1), LAMBDA e, i2 : separated_more(i2, Append(res, e)))),
        Done(res, i))

separated_list1(i) ==
    AndThen(split(i), LAMBDA e, i1 : separated_more(i1, <<e>>))

h_split(i) ==
    AndThen(pane_geom(i), LAMBDA g, i1 :
    AndThen(tag(<<"{">>, i1), LAMBDA o, i2 :
    AndThen(separated_list1(i2), LAMBDA l, i3 :
    AndThen(tag(<<"}">>, i3), LAMBDA c, i4 : Done(LayoutH(g, l), i4)))))

v_split(i) ==
    AndThen(pane_geom(i), LAMBDA g, i1 :
    AndThen(tag(<<"[">>, i1), LAMBDA o, i2 :
    AndThen(separated_list1(i2), LAMBDA l, i3 :
    AndThen(tag(<<"]">>, i3), LAMBDA c, i4 : Done(LayoutV(g, l), i4)))))

\* alt((pane_split, h_split, v_split))
split(i) == Alt(pane_split(i), Alt(h_split(i), v_split(i)))

\* preceded(checksum, split)
layout(i) == AndThen(checksum(i), LAMBDA c, i1 : split(i1))

parse_layoutPartial(i) == layout(i)

\* all_consuming(layout)
parse_layout(i) == all_consuming(layout(i))

\* map_err: the tree, or an error without the input left.
ToResult(r) == IF r.ok THEN Ok(r.v[1]) ELSE Err

\* Layout::parse
LayoutParse(input) == ToResult(parse_layout(input))

LayoutWidth(l) == l.geom.size.width
LayoutHeight(l) == l.geom.size.height

PercentOfOuter(acc, new) == ToString((200 * acc + new + 1) \div (2 * (new + 1))) \o "%"

\* (acc * 100f32 / new).round() shown with {:.0}%: the quotient rounded half away
\* from zero.  The operands are positive and small enough to be exact as f32.
Percent(acc, new) == ToString((200 * acc + new) \div (2 * new)) \o "%"

\* impl From<Layout> for config::Split
RECURSIVE SplitFromLayout(_)
RECURSIVE FoldSplits(_, _, _, _)
FoldSplitsNoLine(kind, splits, acc, acc_split) ==
    IF splits = <<>> THEN acc_split
    ELSE LET next == Last(splits)
             extent == IF kind = "H" THEN LayoutWidth(next) ELSE LayoutHeight(next)
             new == acc + NatOf(extent)
             first == SplitFromLayout(next)
         IN  FoldSplits(kind, Front(splits), new,
                        IF kind = "H"
                        THEN SplitH(HPart(None, first),
                                    HPart(Some(Percent(acc, new)), acc_split))
                        ELSE SplitV(VPart(None, first),
                                    VPart(Some(Percent(acc, new)), acc_split)))

FoldSplits(kind, splits, acc, acc_split) ==
    IF splits = <<>> THEN acc_split
    ELSE LET next == Last(splits)
             extent == IF kind = "H" THEN LayoutWidth(next) ELSE LayoutHeight(next)
             new == acc + NatOf(extent) - 1
             first == SplitFromLayout(next)
         IN  FoldSplits(kind, Front(splits), new,
                        IF kind = "H"
                        THEN SplitH(HPart(None, first),
                                    HPart(Some(Percent(acc, new)), acc_split))
                        ELSE SplitV(VPart(None, first),
                                    VPart(Some(Percent(acc, new)), acc_split)))

SplitFromLayoutFirstOnly(l) ==
    IF l.kind = "Pane" \/ l.splits = <<>> THEN DefaultSplit
    ELSE SplitFromLayout(l.splits[1])

SplitFromLayout(l) ==
    IF l.kind = "Pane" \/ l.splits = <<>> THEN DefaultSplit
    ELSE LET last_split == Last(l.splits)
         IN  FoldSplits(l.kind, Front(l.splits),
                        NatOf(IF l.kind = "H" THEN LayoutWidth(last_split)
                              ELSE LayoutHeight(last_split)),
                        SplitFromLayout(last_split))

(***************************************************************************)
(* Layout::parse and the conversion on descriptors: the descriptors of     *)
(* geometry trees, and the same with characters appended, cut or replaced. *)
(***************************************************************************)
MaxChildren == 3     \* children of a split in a generated geometry tree

\* The number of panes of a geometry tree.
RECURSIVE LayoutPanes(_)
RECURSIVE LayoutPanesOf(_)
LayoutPanesOf(splits) ==
    IF splits = <<>> THEN 0 ELSE LayoutPanes(Head(splits)) + LayoutPanesOf(Tail(splits))
LayoutPanes(l) == IF l.kind = "Pane" THEN 1 ELSE LayoutPanesOf(l.splits)

RenderGeom(geom) ==
    geom.size.width \o <<"x">> \o geom.size.height \o <<",">> \o geom.x_offset
        \o <<",">> \o geom.y_offset

\* The descriptor tmux prints for a geometry tree whose first pane has id `id`.
RECURSIVE Render(_, _)
RECURSIVE RenderList(_, _)
RenderList(splits, id) ==
    IF splits = <<>> THEN <<>>
    ELSE Render(Head(splits), id)
         \o (IF Len(splits) > 1 THEN <<",">> ELSE <<>>)
         \o RenderList(Tail(splits), id + LayoutPanes(Head(splits)))
Render(l, id) ==
    CASE l.kind = "Pane" -> RenderGeom(l.geom) \o <<",">> \o U32(id)
      [] l.kind = "H" -> RenderGeom(l.geom) \o <<"{">> \o RenderList(l.splits, id) \o <<"}">>
      [] l.kind = "V" -> RenderGeom(l.geom) \o <<"[">> \o RenderList(l.splits, id) \o <<"]">>

Checksum == <<"a", "b", "c", "d">>
Descriptor(l) == Checksum \o <<",">> \o Render(l, 1)

Geom(w, h, x, y) == PaneGeom(Size(U32(w), U32(h)), U32(x), U32(y))

LeafLayouts == {LayoutPane(Geom(w, 24, 0, 0)) : w \in {1, 39, 40}}
WindowGeom == Geom(80, 24, 0, 0)
MkLayout(kind, splits) ==
    IF kind = "H" THEN LayoutH(WindowGeom, splits) ELSE LayoutV(WindowGeom, splits)

FlatLayouts ==
    {MkLayout(kind, splits) :
        kind \in {"H", "V"},
        splits \in UNION {SeqsOfLen(LeafLayouts, n) : n \in 1..MaxChildren}}

InnerLayouts ==
    {LayoutPane(Geom(40, 24, 0, 0)),
     MkLayout("H", <<LayoutPane(Geom(40, 24, 0, 0)), LayoutPane(Geom(39, 24, 0, 0))>>),
     MkLayout("V", <<LayoutPane(Geom(40, 24, 0, 0))>>),
     MkLayout("H", <<LayoutPane(Geom(1, 24, 0, 0)), LayoutPane(Geom(39, 24, 0, 0)),
                     LayoutPane(Geom(40, 24, 0, 0))>>)}

NestedLayouts ==
    {MkLayout(kind, <<a, b>>) : kind \in {"H", "V"}, a \in InnerLayouts, b \in InnerLayouts}

\* S4: an H node with children of width 40 and 39.
S4Layout ==
    LayoutH(WindowGeom, <<LayoutPane(Geom(40, 24, 0, 0)), LayoutPane(Geom(39, 24, 41, 0))>>)
S4Input ==
    <<"a", "b", "c", "d", ",", "8", "0", "x", "2", "4", ",", "0", ",", "0",
      "{", "4", "0", "x", "2", "4", ",", "0", ",", "0", ",", "1", ",", "3",
      "9", "x", "2", "4", ",", "4", "1", ",", "0", ",", "2", "}">>

\* Widths at and beyond the largest u32, and one written with leading zeros.
WideLayouts ==
    {LayoutPane(PaneGeom(Size(w, U32(24)), U32(0), U32(0))) :
        w \in {U32MaxDigits, Front(U32MaxDigits) \o <<"6">>, <<"0", "0", "7">>}}

LayoutTrees == LeafLayouts \cup FlatLayouts \cup NestedLayouts \cup {S4Layout} \cup WideLayouts

Garbage == {<<",">>, <<"}">>, <<"x">>, <<" ">>, <<",", "1">>, <<"{", "}">>}
Replacements == {"x", ",", "[", "}"}

\* A descriptor, with what it was made from.
LayoutInput(text, tree, change) == [text |-> text, tree |-> tree, change |-> change]

LayoutInputs(l) ==
    LET d == Descriptor(l)
    IN  {LayoutInput(d, l, "none")}
        \cup {LayoutInput(d \o g, l, "garbage") : g \in Garbage}
        \cup {LayoutInput(d \o <<"7">>, l, "digit")}
        \cup {LayoutInput(SubSeq(d, 1, n), l, "cut") : n \in 0..(Len(d) - 1)}
        \cup {LayoutInput([d EXCEPT ![p] = c], l, "replace") :
                 p \in 1..Len(d), c \in Replacements}

LayoutInit ==
    /\ IdleBuilder
    /\ IdleExec
    /\ IdleSerde
    /\ IdleCwd
    /\ IdleLoad
    /\ IdleImport
    /\ \E l \in LayoutTrees : linput \in LayoutInputs(l)
    /\ llayout = <<>>
    /\ lsplit = <<>>
    /\ lstage = "input"

\* Layout::parse(input)
ParseLayout ==
    /\ lstage = "input"
    /\ llayout' = <<LayoutParse(linput.text)>>
    /\ lstage' = "parsed"
    /\ UNCHANGED <<linput, lsplit, builderVars, execVars, serdeVars, cwdVars,
                   loadVars, importVars>>

\* config::Split::from(layout)
ConvertLayout ==
    /\ lstage = "parsed"
    /\ llayout[1].ok
    /\ lsplit' = <<SplitFromLayout(llayout[1].v[1])>>
    /\ lstage' = "converted"
    /\ UNCHANGED <<linput, llayout, builderVars, execVars, serdeVars, cwdVars,
                   loadVars, importVars>>

LayoutNext ==
    \/ ParseLayout
    \/ ConvertLayout

SpecLayout == LayoutInit /\ [][LayoutNext]_vars

\* The input is a whole descriptor and nothing else.
WholeDescriptor ==
    \/ linput.change = "none"
    \/ linput.change = "digit" /\ linput.tree.kind = "Pane"

\* C15: Layout::parse succeeds only if the whole input is checksum "," split: it
\* returns the tree of a descriptor; it returns an error for a descriptor followed
\* by other characters, for one cut short, and whenever the grammar matches no
\* prefix or a proper prefix only of the input.
C15_WholeInput ==
    lstage # "input" =>
        LET r == llayout[1]
            prefix == layout(linput.text)
        IN  /\ r.ok <=> (prefix.ok /\ prefix.rest = <<>>)
            /\ r.ok => r.v[1] = prefix.v[1]
            /\ (WholeDescriptor /\ linput.tree \notin WideLayouts) =>
                  r.ok /\ r.v[1] = linput.tree
            /\ linput.change \in {"garbage", "cut"} => ~r.ok
            /\ (linput.change = "digit" /\ linput.tree.kind # "Pane") => ~r.ok

\* A descriptor followed by a comma and a digit: a complete split expression with
\* characters left over, rejected.
C15_Witness ==
    /\ lstage = "parsed"
    /\ linput.change = "garbage"
    /\ linput.text = Descriptor(S4Layout) \o <<",", "1">>
    /\ layout(linput.text).ok
    /\ ~llayout[1].ok

\* S4: the descriptor has been parsed and converted.
S4Converted == lstage = "converted" /\ linput.text = S4Input

\* C16 as stated: in S4 the split is H with an unsized default pane on the left and
\* a default pane sized "51%" on the right.
C16_S4AsStated ==
    S4Converted =>
        /\ llayout[1].v[1] = S4Layout
        /\ lsplit[1] = SplitH(HPart(None, DefaultSplit), HPart(Some("51%"), DefaultSplit))

\* C16 amended: in S4 the split is H with an unsized default pane on the left and
\* a default pane sized "50%" on the right: round(39 * 100 / (39 + 40 - 1)).
C16_S4Converted ==
    S4Converted =>
        /\ llayout[1].v[1] = S4Layout
        /\ lsplit[1] = SplitH(HPart(None, DefaultSplit), HPart(Some("50%"), DefaultSplit))

C16_Witness ==
    /\ S4Converted
    /\ linput.change = "none"
    /\ lsplit[1].kind = "H"
    /\ is_some(lsplit[1].right.width)

\* C17: the converted split has as many panes, in pane_iter, as the geometry tree
\* the parser produced has leaf panes.
C17_PaneCount ==
    lstage = "converted" =>
        Len(pane_iter(lsplit[1])) = LayoutPanes(llayout[1].v[1])

\* A nested tree of five panes has been converted.
C17_Witness ==
    /\ lstage = "converted"
    /\ LayoutPanes(llayout[1].v[1]) = 5
    /\ \E i \in 1..Len(llayout[1].v[1].splits) : llayout[1].v[1].splits[i].kind # "Pane"
    /\ Len(pane_iter(lsplit[1])) = 5

(***************************************************************************)
(* Import of the running state (tmux/import.rs).  The text tmux prints is  *)
(* the sequence of its characters; a String field holds the characters of  *)
(* its word.  A HashMap is a function from its keys to its values.         *)
(***************************************************************************)
IsSpace(c) == c \in {" ", "\t"}

\* The first position of `i` that holds a character of `chars`, or Len(i) + 1.
FirstOf(i, chars) ==
    LET found == {p \in 1..Len(i) : i[p] \in chars}
    IN  IF found = {} THEN Len(i) + 1 ELSE CHOOSE p \in found : \A q \in found : p <= q

\* str::lines: the text between line feeds, each without a final carriage
\* return; a line feed at the end of the text ends the last line.
RECURSIVE TextLines(_)
TextLines(text) ==
    IF text = <<>> THEN <<>>
    ELSE LET n == FirstOf(text, {"\n"})
             line == SubSeq(text, 1, n - 1)
         IN  <<IF line # <<>> /\ Last(line) = "\r" THEN Front(line) ELSE line>>
             \o TextLines(From(text, n + 1))

lines(input) == TextLines(input)

\* The position of the quote that closes a double-quoted word starting at
\* `p`, or 0: a backslash takes the character after it into the word.
RECURSIVE ClosingQuote(_, _)
ClosingQuote(i, p) ==
    IF p > Len(i) THEN 0
    ELSE IF i[p] = "\"" THEN p
    ELSE IF i[p] = "\\" THEN (IF p + 1 > Len(i) THEN 0 ELSE ClosingQuote(i, p + 2))
    ELSE ClosingQuote(i, p + 1)

\* Inside double quotes a backslash is dropped before a dollar, a double quote,
\* a backslash and a line feed (and a backquote, which no text here contains).
RECURSIVE Unescape(_)
Unescape(w) ==
    IF w = <<>> THEN <<>>
    ELSE IF Len(w) > 1 /\ w[1] = "\\" /\ w[2] \in {"$", "\"", "\\", "\n"}
         THEN <<w[2]>> \o Unescape(SubSeq(w, 3, Len(w)))
         ELSE <<w[1]>> \o Unescape(Tail(w))

\* shellwords::split: words are separated by white space; a word is made of
\* bare characters, single-quoted text, double-quoted text and characters
\* escaped with a backslash; a quote that is never closed is an error.
RECURSIVE ShellWords(_, _, _, _)
ShellWords(i, field, open, words) ==
    IF i = <<>> THEN Ok(IF open THEN Append(words, field) ELSE words)
    ELSE LET c == Head(i)
         IN  CASE IsSpace(c) ->
                    ShellWords(Tail(i), <<>>, FALSE,
                               IF open THEN Append(words, field) ELSE words)
               [] c = "'" ->
                    LET ends == {p \in 2..Len(i) : i[p] = "'"}
                        e == CHOOSE p \in ends : \A q \in ends : p <= q
                    IN  IF ends = {} THEN Err
                        ELSE ShellWords(From(i, e + 1), field \o SubSeq(i, 2, e - 1),
                                        TRUE, words)
               [] c = "\"" ->
                    LET e == ClosingQuote(i, 2)
                    IN  IF e = 0 THEN Err
                        ELSE ShellWords(From(i, e + 1),
                                        field \o Unescape(SubSeq(i, 2, e - 1)),
                                        TRUE, words)
               [] c = "\\" ->
                    IF Len(i) = 1 THEN ShellWords(<<>>, Append(field, c), TRUE, words)
                    ELSE ShellWords(From(i, 3), Append(field, i[2]), TRUE, words)
               [] OTHER ->
                    LET n == FirstOf(i, {" ", "\t", "'", "\"", "\\"})
                    IN  ShellWords(From(i, n), field \o SubSeq(i, 1, n - 1), TRUE, words)

shellwords_split(line) == ShellWords(line, <<>>, FALSE, <<>>)

\* u32::from_str: an optional "+", then one digit at least and digits only, of a
\* value that fits 32 bits.
ParseU32(word) ==
    LET digits == IF word # <<>> /\ word[1] = "+" THEN Tail(word) ELSE word
    IN  IF digits = <<>> \/ SpanDigits(digits) # Len(digits) \/ ~FitsU32(digits)
        THEN Err
        ELSE Ok(StripZeros(digits))

\* u8::from_str
ParseU8(word) ==
    LET n == ParseU32(word)
    IN  IF n.ok /\ Len(n.v[1]) <= 3 /\ NatOf(n.v[1]) <= 255 THEN n ELSE Err

\* preceded(tag(sigil), u32)
preceded_u32(sigil, i) == AndThen(tag(<<sigil>>, i), LAMBDA t, i1 : u32(i1))

session_id(i) == preceded_u32("$", i)
window_id(i) == preceded_u32("@", i)
pane_id(i) == preceded_u32("%", i)

PaneInfo(sid, wid, pid, sname, scwd, windex, wname, wactive, wlayout, pindex, pactive, pcwd) ==
    [session_id |-> sid, window_id |-> wid, pane_id |-> pid, session_name |-> sname,
     session_cwd |-> scwd, window_index |-> windex, window_name |-> wname,
     window_active |-> wactive, window_layout |-> wlayout, pane_index |-> pindex,
     pane_active |-> pactive, pane_cwd |-> pcwd]

\* The end of parse_line: every `?` has returned the error of its field, or
\* the line is the PaneInfo of the parsed fields.
PaneInfoOf(sid, wid, pid, sname, scwd, windex, wname, wactive, wlayout, pindex, pactive, pcwd) ==
    IF sid.ok /\ wid.ok /\ pid.ok /\ windex.ok /\ wactive.ok /\ wlayout.ok
       /\ pindex.ok /\ pactive.ok
    THEN Ok(PaneInfo(sid.v[1], wid.v[1], pid.v[1], sname, scwd, windex.v[1], wname,
                     wactive.v[1] # <<"0">>, wlayout.v[1], pindex.v[1],
                     pactive.v[1] # <<"0">>, pcwd))
    ELSE Err

\* parse_line on the words of the line: eleven words are taken with next_word()?,
\* the twelfth with unwrap_or_default().
parse_words(words) ==
    IF Len(words) < 11 THEN Err
    ELSE PaneInfoOf(all_consuming(session_id(words[1])),
                    all_consuming(window_id(words[2])),
                    all_consuming(pane_id(words[3])),
                    words[4], words[5], ParseU32(words[6]), words[7],
                    ParseU8(words[8]), LayoutParse(words[9]), ParseU32(words[10]),
                    ParseU8(words[11]),
                    IF Len(words) > 11 THEN words[12] ELSE <<>>)

parse_line(line) ==
    LET split_words == shellwords_split(line)
    IN  IF split_words.ok THEN parse_words(split_words.v[1]) ELSE Err

RECURSIVE CollectValid(_)
CollectValid(results) ==
    IF results = <<>> THEN Ok(<<>>)
    ELSE LET rest == CollectValid(Tail(results))
         IN  IF Head(results).ok THEN Ok(<<Head(results).v[1]>> \o rest.v[1]) ELSE rest

\* Iterator::collect into a Result: the first error is the result.
RECURSIVE Collect(_)
Collect(results) ==
    IF results = <<>> THEN Ok(<<>>)
    ELSE LET rest == Collect(Tail(results))
         IN  IF Head(results).ok /\ rest.ok
             THEN Ok(<<Head(results).v[1]>> \o rest.v[1])
             ELSE Err

parse_pane_infos(input) ==
    LET ls == lines(input)
    IN  Collect([k \in 1..Len(ls) |-> parse_line(ls[k])])

TmuxPane(id, index, active, cwd) ==
    [id |-> id, index |-> index, active |-> active, cwd |-> cwd]
TmuxWindow(id, index, name, wlayout, active, panes) ==
    [id |-> id, index |-> index, name |-> name, layout |-> wlayout, active |-> active,
     panes |-> panes]
TmuxSession(id, name, cwd, windows) ==
    [id |-> id, name |-> name, cwd |-> cwd, windows |-> windows]
TmuxState(sessions) == [sessions |-> sessions]

\* HashMap::new()
EmptyMap == <<>>

\* HashMap::insert: the value replaces the one the key had.
MapInsert(map, key, value) == (key :> value) @@ map

\* The body of the loop of parse_tmux_state: the session and the window of the
\* line are created if their ids are new, and the pane is inserted.
AddPaneInfo(sessions, info) ==
    LET session ==
            IF info.session_id \in DOMAIN sessions THEN sessions[info.session_id]
            ELSE TmuxSession(info.session_id, info.session_name, info.session_cwd,
                             EmptyMap)
        window ==
            IF info.window_id \in DOMAIN session.windows
            THEN session.windows[info.window_id]
            ELSE TmuxWindow(info.window_id, info.window_index, info.window_name,
                            info.window_layout, info.window_active, EmptyMap)
        pane == TmuxPane(info.pane_id, info.pane_index, info.pane_active, info.pane_cwd)
        panes == MapInsert(window.panes, info.pane_id, pane)
        windows == MapInsert(session.windows, info.window_id,
                             [window EXCEPT !.panes = panes])
    IN  MapInsert(sessions, info.session_id, [session EXCEPT !.windows = windows])

RECURSIVE AddPaneInfos(_, _)
AddPaneInfos(sessions, infos) ==
    IF infos = <<>> THEN sessions
    ELSE AddPaneInfos(AddPaneInfo(sessions, Head(infos)), Tail(infos))

parse_tmux_state(input) ==
    LET infos == parse_pane_infos(input)
    IN  IF infos.ok THEN Ok(TmuxState(AddPaneInfos(EmptyMap, infos.v[1]))) ELSE Err

\* Path::new on the characters of a string: the text between slashes.
RECURSIVE Components(_, _)
Components(text, comp) ==
    IF text = <<>> THEN (IF comp = <<>> THEN <<>> ELSE <<comp>>)
    ELSE IF Head(text) = "/"
         THEN (IF comp = <<>> THEN <<>> ELSE <<comp>>) \o Components(Tail(text), <<>>)
         ELSE Components(Tail(text), Append(comp, Head(text)))

PathNew(text) == Path(text # <<>> /\ Head(text) = "/", Components(text, <<>>))

\* impl From<String> for Cwd
CwdFromString(text) == IF text = <<>> THEN None ELSE Some(PathNew(text))

strip_prefixText(path, base) ==
    LET n == Len(base.comps)
    IN  IF /\ path.abs = base.abs
           /\ 0 < n /\ n <= Len(path.comps)
           /\ SubSeq(path.comps, 1, n - 1) = Front(base.comps)
           /\ Len(base.comps[n]) <= Len(path.comps[n])
           /\ SubSeq(path.comps[n], 1, Len(base.comps[n])) = base.comps[n]
        THEN Some(Path(FALSE,
                       (IF path.comps[n] = base.comps[n] THEN <<>>
                        ELSE <<From(path.comps[n], Len(base.comps[n]) + 1)>>)
                       \o From(path.comps, n + 1)))
        ELSE None

\* Path::strip_prefix(base).ok()
strip_prefix(path, base) ==
    IF /\ path.abs = base.abs
       /\ Len(base.comps) <= Len(path.comps)
       /\ SubSeq(path.comps, 1, Len(base.comps)) = base.comps
    THEN Some(Path(FALSE, From(path.comps, Len(base.comps) + 1)))
    ELSE None

Unsorted(map, sort_key) ==
    {order \in [1..Cardinality(DOMAIN map) -> DOMAIN map] :
        \A a, b \in DOMAIN order : a # b => order[a] # order[b]}

\* into_values().collect() and sort_by_key: the keys of the map in an order the
\* stable sort can leave their values in, whatever order the map yields them in.
SortedBy(map, sort_key) ==
    {order \in [1..Cardinality(DOMAIN map) -> DOMAIN map] :
        /\ \A a, b \in DOMAIN order : a # b => order[a] # order[b]
        /\ \A a, b \in DOMAIN order :
              a < b => ~U32Less(sort_key[order[b]], sort_key[order[a]])}

Ids(map) == [key \in DOMAIN map |-> map[key].id]
Indexes(map) == [key \in DOMAIN map |-> map[key].index]

ZipPaneRelativeOnly(config_pane, pane, session_cwd) ==
    LET session_cwd_path == to_path(session_cwd)
        stripped == IF is_none(session_cwd_path) THEN None
                    ELSE strip_prefix(PathNew(pane.cwd), session_cwd_path[1])
    IN  [config_pane EXCEPT
            !.active = pane.active,
            !.cwd = IF is_some(stripped) THEN CwdFromPathBuf(stripped[1]) ELSE None]

\* The closure of into_config_window on the k-th pair of the zip.
ZipPane(config_pane, pane, session_cwd) ==
    LET session_cwd_path == to_path(session_cwd)
        stripped == IF is_none(session_cwd_path) THEN None
                    ELSE strip_prefix(PathNew(pane.cwd), session_cwd_path[1])
    IN  [config_pane EXCEPT
            !.active = pane.active,
            !.cwd = IF is_some(stripped) THEN CwdFromPathBuf(stripped[1])
                    ELSE CwdFromString(pane.cwd)]

\* pane_iter_mut().zip(panes).for_each(..): the split with its first panes, in
\* the order of the iterator, changed by the closure.
ZipPanes(root_split, panes, session_cwd) ==
    LET config_panes == pane_iter(root_split)
    IN  WithPanes(root_split,
                  [k \in 1..Len(config_panes) |->
                      IF k <= Len(panes)
                      THEN ZipPane(config_panes[k], panes[k], session_cwd)
                      ELSE config_panes[k]])

\* Window::into_config_window, for the panes in the order the sort left them in.
into_config_window(self, panes, session_cwd) ==
    Window(Some(self.name), None, self.active,
           ZipPanes(SplitFromLayout(self.layout), panes, session_cwd))

\* The lists of every choice of one element per set.
RECURSIVE SeqProduct(_)
SeqProduct(sets) ==
    IF sets = <<>> THEN {<<>>}
    ELSE {<<x>> \o rest : x \in Head(sets), rest \in SeqProduct(Tail(sets))}

ConfigWindows(window, session_cwd) ==
    {into_config_window(window, [k \in DOMAIN order |-> window.panes[order[k]]],
                        session_cwd) :
        order \in SortedBy(window.panes, Indexes(window.panes))}

\* impl From<Session> for config::Session
ConfigSessions(session) ==
    LET session_cwd == CwdFromString(session.cwd)
    IN  {Session(session.name, session_cwd, windows) :
            windows \in UNION {
                SeqProduct([k \in DOMAIN order |->
                               ConfigWindows(session.windows[order[k]], session_cwd)]) :
                order \in SortedBy(session.windows, Indexes(session.windows))}}

\* impl From<TmuxState> for Vec<config::Session>
SessionsFromState(state) ==
    UNION {SeqProduct([k \in DOMAIN order |-> ConfigSessions(state.sessions[order[k]])]) :
              order \in SortedBy(state.sessions, Ids(state.sessions))}

(***************************************************************************)
(* parse_tmux_state and the export on texts of up to MaxLines lines: lines *)
(* as tmux prints them for panes of two sessions, and lines with a word    *)
(* cut, replaced or badly quoted.                                          *)
(***************************************************************************)
MaxLines == 3        \* lines of the text given to parse_tmux_state

\* What a line says, as values.
Row(sid, wid, pid, sname, scwd, windex, wname, wactive, tree, pindex, pactive, pcwd) ==
    PaneInfo(sid, wid, pid, sname, scwd, windex, wname, wactive, tree, pindex,
             pactive, pcwd)

\* A word as the q: modifier prints it (a backslash before each special character,
\* nothing at all for the empty word), or within quotes.
RECURSIVE Escaped(_)
Escaped(word) ==
    IF word = <<>> THEN <<>>
    ELSE (IF Head(word) \in {" ", "{", "}", "[", "]", "\\", "'", "\""}
          THEN <<"\\", Head(word)>> ELSE <<Head(word)>>) \o Escaped(Tail(word))

Quoted(word, style) ==
    CASE style = "escaped" -> Escaped(word)
      [] style = "single" -> <<"'">> \o word \o <<"'">>
      [] style = "double" -> <<"\"">> \o word \o <<"\"">>

Flag(b) == IF b THEN <<"1">> ELSE <<"0">>

RowWords(row, style) ==
    <<<<"$">> \o row.session_id, <<"@">> \o row.window_id, <<"%">> \o row.pane_id,
      Quoted(row.session_name, style), Quoted(row.session_cwd, style),
      row.window_index, Quoted(row.window_name, style), Flag(row.window_active),
      Escaped(Descriptor(row.window_layout)), row.pane_index, Flag(row.pane_active),
      Quoted(row.pane_cwd, style)>>

RECURSIVE JoinWords(_)
JoinWords(words) ==
    IF words = <<>> THEN <<>>
    ELSE IF Len(words) = 1 THEN words[1]
    ELSE words[1] \o <<" ">> \o JoinWords(Tail(words))

\* A line of the text, with what it was made from.
Line(kind, row, words) ==
    [kind |-> kind, row |-> row, text |-> JoinWords(words),
     nwords |-> Cardinality({k \in DOMAIN words : words[k] # <<>>})]

ValidLine(row, style) == Line("valid", row, RowWords(row, style))

OnePane == LayoutPane(Geom(1, 1, 0, 0))
TwoPanes == LayoutH(Geom(3, 1, 0, 0), <<OnePane, LayoutPane(Geom(1, 1, 2, 0))>>)
ThreePanes ==
    LayoutH(Geom(3, 3, 0, 0),
            <<OnePane,
              LayoutV(Geom(1, 3, 2, 0),
                      <<LayoutPane(Geom(1, 1, 2, 0)), LayoutPane(Geom(1, 1, 2, 2))>>)>>)

DirA == <<"/", "a">>
DirAB == <<"/", "a", "/", "b">>
DirT == <<"/", "t">>
\* /ab: its text starts with the text of /a, its components do not.
DirAb == <<"/", "a", "b">>

\* Panes %1, %2, %3 of window @1 (index 1) of session $2, whose cwd is /a.
RowA1 == Row(U32(2), U32(1), U32(1), <<"s">>, DirA, U32(1), <<"w">>, TRUE, ThreePanes,
             U32(0), FALSE, DirAB)
RowA2 == Row(U32(2), U32(1), U32(2), <<"s">>, DirA, U32(1), <<"w">>, TRUE, ThreePanes,
             U32(1), TRUE, DirA)
RowA3 == Row(U32(2), U32(1), U32(3), <<"s">>, DirA, U32(1), <<"w">>, TRUE, ThreePanes,
             U32(2), FALSE, DirT)
\* Pane %1 of the same window again, with other values.
RowA1Again == Row(U32(2), U32(1), U32(1), <<"s">>, DirA, U32(1), <<"w">>, TRUE,
                  ThreePanes, U32(2), TRUE, DirT)
\* The same session and window with other session and window values; the pane
\* has the index of %2 and no cwd.
RowA4 == Row(U32(2), U32(1), U32(4), <<"s", " ", "2">>, DirT, U32(0), <<"w", "2">>,
             FALSE, TwoPanes, U32(1), FALSE, <<>>)
\* Windows @0 (index 0) and @7 (index 1, as @1) of session $2.
RowB == Row(U32(2), U32(0), U32(5), <<"s">>, DirA, U32(0), <<"v">>, FALSE, OnePane,
            U32(0), TRUE, DirA)
RowC == Row(U32(2), U32(7), U32(6), <<"s">>, DirA, U32(1), <<"x">>, FALSE, OnePane,
            U32(0), TRUE, DirAb)
\* Sessions $10, without a cwd, and $4294967295.
RowD == Row(U32(10), U32(1), U32(7), <<"t">>, <<>>, U32(0), <<"w">>, TRUE, TwoPanes,
            U32(10), TRUE, DirT)
RowE == Row(U32(10), U32(1), U32(8), <<"t">>, <<>>, U32(0), <<"w">>, TRUE, TwoPanes,
            U32(9), FALSE, DirAB)
RowF == Row(U32MaxDigits, U32(0), U32(0), <<"u">>, DirT, U32MaxDigits, <<"w">>, FALSE,
            OnePane, U32(0), FALSE, DirT)

\* An empty word within a line is written with quotes.
ValidLines ==
    {ValidLine(row, "escaped") : row \in {RowA1, RowA3, RowA1Again, RowA4, RowB}}
    \cup {ValidLine(row, "single") : row \in {RowA2, RowC, RowD}}
    \cup {ValidLine(row, "double") : row \in {RowE, RowF}}

BaseWords == RowWords(RowA1, "escaped")
Replaced(kind, k, word) == Line(kind, RowA1, [BaseWords EXCEPT ![k] = word])

TooBig == Front(U32MaxDigits) \o <<"6">>

InvalidLines ==
    {Line("short", RowA1, SubSeq(BaseWords, 1, n)) : n \in {0, 3, 10}}
    \cup {Replaced("id", 1, w) : w \in {<<"2">>, <<"$">>, <<"$", "2", "x">>, <<"@", "2">>,
                                       <<"$", "+", "2">>}}
    \cup {Replaced("id", 2, <<"%", "1">>), Replaced("id", 3, <<"%">>)}
    \cup {Replaced("overflow", k, (IF k = 1 THEN <<"$">> ELSE <<>>) \o TooBig) :
             k \in {1, 6, 10}}
    \cup {Replaced("quotes", 4, w) : w \in {<<"'", "s">>, <<"\"", "s">>, <<"s", "'">>}}
    \cup {Replaced("flag", 8, <<"2", "5", "6">>), Replaced("flag", 11, <<"x">>)}
    \cup {Replaced("layout", 9, <<"a", ",", "1", "x", "1", ",", "0">>)}

RECURSIVE JoinLines(_)
JoinLines(rows) ==
    IF rows = <<>> THEN <<>> ELSE Head(rows).text \o <<"\n">> \o JoinLines(Tail(rows))

\* A text, with the lines it was made from.
ImportInput(rows, newline) ==
    [rows |-> rows,
     text |-> IF newline \/ rows = <<>> THEN JoinLines(rows) ELSE Front(JoinLines(rows))]

ImportInit ==
    /\ IdleBuilder
    /\ IdleExec
    /\ IdleSerde
    /\ IdleCwd
    /\ IdleLoad
    /\ IdleLayout
    /\ \E n \in 0..MaxLines :
          \E rows \in SeqsOfLen(ValidLines \cup InvalidLines, n) :
             \E newline \in (IF rows # <<>> /\ Last(rows).text = <<>>
                             THEN {TRUE} ELSE BOOLEAN) :
                iinput = ImportInput(rows, newline)
    /\ istate = <<>>
    /\ isessions = <<>>
    /\ ipc = "input"

\* parser::parse_tmux_state(state_desc)
ParseState ==
    /\ ipc = "input"
    /\ istate' = parse_tmux_state(iinput.text)
    /\ ipc' = "parsed"
    /\ UNCHANGED <<iinput, isessions, builderVars, execVars, serdeVars, cwdVars,
                   loadVars, layoutVars>>

\* Vec::<config::Session>::from(state)
ExportSessions ==
    /\ ipc = "parsed"
    /\ istate.ok
    /\ isessions' \in SessionsFromState(istate.v[1])
    /\ ipc' = "exported"
    /\ UNCHANGED <<iinput, istate, builderVars, execVars, serdeVars, cwdVars,
                   loadVars, layoutVars>>

ImportNext ==
    \/ ParseState
    \/ ExportSessions

SpecImport == ImportInit /\ [][ImportNext]_vars

(***************************************************************************)
(* Claims about the import                                                 *)
(***************************************************************************)
\* What the lines of the text say, when every one of them is valid.
ImportRows == [k \in DOMAIN iinput.rows |-> iinput.rows[k].row]
AllValid == \A k \in DOMAIN iinput.rows : iinput.rows[k].kind = "valid"

\* The first line that mentions the session, and the session and the window.
FirstOfSession(sid) ==
    ImportRows[CHOOSE k \in DOMAIN ImportRows :
                  /\ ImportRows[k].session_id = sid
                  /\ \A j \in 1..(k - 1) : ImportRows[j].session_id # sid]
FirstOfWindow(sid, wid) ==
    ImportRows[CHOOSE k \in DOMAIN ImportRows :
                  /\ ImportRows[k].session_id = sid /\ ImportRows[k].window_id = wid
                  /\ \A j \in 1..(k - 1) :
                        ImportRows[j].session_id # sid \/ ImportRows[j].window_id # wid]

\* One session per session_id and one window per (session_id, window_id), with
\* the values of the first line that mentions them.
GroupedFirstWins ==
    LET sessions == istate.v[1].sessions
    IN  /\ DOMAIN sessions = {ImportRows[k].session_id : k \in DOMAIN ImportRows}
        /\ \A sid \in DOMAIN sessions :
              LET session == sessions[sid]
                  first == FirstOfSession(sid)
              IN  /\ session.id = sid
                  /\ session.name = first.session_name
                  /\ session.cwd = first.session_cwd
                  /\ DOMAIN session.windows =
                        {ImportRows[k].window_id :
                            k \in {j \in DOMAIN ImportRows : ImportRows[j].session_id = sid}}
                  /\ \A wid \in DOMAIN session.windows :
                        LET window == session.windows[wid]
                            line == FirstOfWindow(sid, wid)
                        IN  /\ window.id = wid
                            /\ window.index = line.window_index
                            /\ window.name = line.window_name
                            /\ window.layout = line.window_layout
                            /\ window.active = line.window_active

\* The pane of the k-th line is one of the panes of the window of the line.
PaneKept(k) ==
    LET line == ImportRows[k]
        panes == istate.v[1].sessions[line.session_id].windows[line.window_id].panes
    IN  \E pid \in DOMAIN panes :
           panes[pid] = TmuxPane(line.pane_id, line.pane_index, line.pane_active,
                                 line.pane_cwd)

\* C18: for valid lines the state has one session per session_id and one window
\* per (session_id, window_id), their values are those of the first line that
\* mentions them, and the pane of every line is among the panes of its window.
C18_Grouping ==
    (ipc # "input" /\ AllValid) =>
        /\ istate.ok
        /\ GroupedFirstWins
        /\ \A k \in DOMAIN ImportRows : PaneKept(k)

\* The part of C18 about sessions and windows, with panes as the code keeps them:
\* a pane per pane_id of the window, of the last line that mentions it.
GroupedLastPaneWins ==
    (ipc # "input" /\ AllValid) =>
        /\ istate.ok
        /\ GroupedFirstWins
        /\ \A k \in DOMAIN ImportRows :
              \/ PaneKept(k)
              \/ \E j \in (k + 1)..Len(ImportRows) :
                    /\ ImportRows[j].session_id = ImportRows[k].session_id
                    /\ ImportRows[j].window_id = ImportRows[k].window_id
                    /\ ImportRows[j].pane_id = ImportRows[k].pane_id

\* The failures C19 names: a line of fewer than 11 words, an identifier that is
\* not its sigil and a 32-bit integer, an index beyond 32 bits, an open quote.
NamedFailures == {"short", "id", "overflow", "quotes"}

\* C19: if any line of the text has one of the named failures, parse_tmux_state
\* returns an error and no state, whatever the other lines are; if every line is
\* valid it returns a state; and a valid line of exactly 11 words gives its pane
\* an empty cwd.
C19_AllOrNothing ==
    ipc # "input" =>
        /\ (\E k \in DOMAIN iinput.rows : iinput.rows[k].kind \in NamedFailures) =>
              /\ istate = Err
              /\ isessions = <<>>
              /\ ipc = "parsed"
        /\ AllValid => istate.ok
        /\ AllValid =>
              \A k \in DOMAIN iinput.rows :
                 iinput.rows[k].nwords = 11 =>
                    LET line == ImportRows[k]
                        window == istate.v[1].sessions[line.session_id]
                                      .windows[line.window_id]
                    IN  /\ line.pane_id \in DOMAIN window.panes
                        /\ window.panes[line.pane_id].cwd = <<>>

\* Two valid lines followed by a line whose window index is 4294967296: an error.
C19_Witness ==
    /\ ipc = "parsed"
    /\ Len(iinput.rows) = 3
    /\ iinput.rows[1].kind = "valid"
    /\ iinput.rows[2].kind = "valid"
    /\ iinput.rows[2].nwords = 11
    /\ iinput.rows[3].kind = "overflow"
    /\ parse_line(iinput.rows[3].text) = Err
    /\ parse_line(iinput.rows[2].text).ok
    /\ istate = Err

\* The keys of `map` in an order in which `sort_key` never decreases.
Ascending(map, order, sort_key) ==
    /\ DOMAIN order = 1..Cardinality(DOMAIN map)
    /\ {order[k] : k \in DOMAIN order} = DOMAIN map
    /\ \A a, b \in DOMAIN order :
          a < b => /\ order[a] # order[b]
                   /\ ~U32Less(sort_key[order[b]], sort_key[order[a]])
AscendingOrders(map, sort_key) ==
    {order \in [1..Cardinality(DOMAIN map) -> DOMAIN map] : Ascending(map, order, sort_key)}

\* The cwd of a configuration pane is the cwd of the imported pane, taken from
\* the cwd of the session when it is relative; no cwd for the empty one.
SameCwd(config_cwd, pane_cwd, session_cwd) ==
    IF pane_cwd = <<>> THEN config_cwd = None
    ELSE joined(CwdFromString(session_cwd), config_cwd) = Some(PathNew(pane_cwd))

\* The k-th pane of the iteration has the flag and the cwd of the pane with the
\* k-th smallest index, for as many panes as both the split and the window have.
PanesInIndexOrder(config_window, window, session_cwd) ==
    LET config_panes == pane_iter(config_window.root_split)
    IN  \E order \in AscendingOrders(window.panes,
                                     [pid \in DOMAIN window.panes |->
                                         window.panes[pid].index]) :
           \A k \in DOMAIN config_panes \cap DOMAIN order :
              /\ config_panes[k].active = window.panes[order[k]].active
              /\ SameCwd(config_panes[k].cwd, window.panes[order[k]].cwd, session_cwd)

WindowsInIndexOrder(config_session, session) ==
    /\ Len(config_session.windows) = Cardinality(DOMAIN session.windows)
    /\ \E order \in AscendingOrders(session.windows,
                                    [wid \in DOMAIN session.windows |->
                                        session.windows[wid].index]) :
          \A k \in DOMAIN order :
             /\ config_session.windows[k].name = Some(session.windows[order[k]].name)
             /\ config_session.windows[k].active = session.windows[order[k]].active
             /\ PanesInIndexOrder(config_session.windows[k], session.windows[order[k]],
                                  session.cwd)

\* C20: the exported sessions are those of the state in ascending numeric
\* session_id; the windows of each are in ascending window_index; and the k-th
\* pane of the pre-order iteration of each window's root split has the active
\* flag and the cwd of the imported pane with the k-th smallest pane_index (the
\* cwd written relative to the session's cwd where that is a prefix of it),
\* whatever order the lines came in.
C20_ExportOrder ==
    ipc = "exported" =>
        LET sessions == istate.v[1].sessions
        IN  /\ Len(isessions) = Cardinality(DOMAIN sessions)
            /\ \E order \in AscendingOrders(sessions, [sid \in DOMAIN sessions |-> sid]) :
                  \A k \in DOMAIN order :
                     /\ isessions[k].name = sessions[order[k]].name
                     /\ isessions[k].cwd = CwdFromString(sessions[order[k]].cwd)
                     /\ WindowsInIndexOrder(isessions[k], sessions[order[k]])

\* The lines of pane %7 of session $10, and of panes %3 (index 2) and %1 (index 0)
\* of session $2, in that order: session $2 comes first, and the first two panes
\* of its window are %1, with its cwd relative to /a, and %3, with its cwd /t.
C20_Witness ==
    /\ ipc = "exported"
    /\ ImportRows = <<RowD, RowA3, RowA1>>
    /\ Len(isessions) = 2
    /\ isessions[1].name = <<"s">>
    /\ isessions[2].name = <<"t">>
    /\ LET config_panes == pane_iter(isessions[1].windows[1].root_split)
       IN  /\ Len(config_panes) = 3
           /\ config_panes[1].cwd = Some(Path(FALSE, <<<<"b">>>>))
           /\ config_panes[2].cwd = Some(Path(TRUE, <<<<"t">>>>))
           /\ ~config_panes[1].active

\* The exported sessions, windows and panes are those of the state in some order
\* the sorts allow, and `Holds` is true of every configuration pane, the imported
\* pane it was paired with, and the cwd of the session of both.
PairedPanes(Holds(_, _, _)) ==
    LET sessions == istate.v[1].sessions
    IN  \E sorder \in AscendingOrders(sessions, [sid \in DOMAIN sessions |-> sid]) :
           \A s \in DOMAIN sorder :
              LET session == sessions[sorder[s]]
              IN  \E worder \in AscendingOrders(session.windows,
                                                [wid \in DOMAIN session.windows |->
                                                    session.windows[wid].index]) :
                     \A w \in DOMAIN worder :
                        LET window == session.windows[worder[w]]
                            config_panes == pane_iter(isessions[s].windows[w].root_split)
                        IN  \E porder \in AscendingOrders(window.panes,
                                                          [pid \in DOMAIN window.panes |->
                                                              window.panes[pid].index]) :
                               \A k \in DOMAIN config_panes \cap DOMAIN porder :
                                  Holds(config_panes[k], window.panes[porder[k]],
                                        session.cwd)

\* The components of `base` are the first components of `path`.
ComponentPrefix(base, path) ==
    /\ base.abs = path.abs
    /\ \E rest \in {From(path.comps, n) : n \in 1..(Len(path.comps) + 1)} :
          path.comps = base.comps \o rest

\* A pane cwd is stored relative to the session cwd exactly when the session has
\* a cwd whose components are the first components of the pane's, as the
\* components that follow them (none: no cwd); otherwise as it is, absolute.
StoredRelative(config_pane, pane, session_cwd) ==
    LET base == PathNew(session_cwd)
        path == PathNew(pane.cwd)
    IN  IF session_cwd # <<>> /\ ComponentPrefix(base, path)
        THEN /\ \A c \in DOMAIN config_pane.cwd : ~config_pane.cwd[c].abs
             /\ joined(Some(base), config_pane.cwd) = Some(path)
        ELSE pane.cwd # <<>> =>
                /\ config_pane.cwd = Some(path)
                /\ path.abs

\* C21: in an exported session a pane's cwd is relative to the session's cwd
\* exactly when the session's cwd is a component-wise prefix of the pane's cwd;
\* otherwise, and when the session has no cwd, it is the pane's cwd unchanged.
C21_Relativised == ipc = "exported" => PairedPanes(StoredRelative)

\* Session $2 with cwd /a: pane %1 in /a/b is stored as b, and pane %6 in /ab,
\* of which /a is no component-wise prefix, as /ab.
C21_Witness ==
    /\ ipc = "exported"
    /\ ImportRows = <<RowA1, RowC>>
    /\ Len(isessions) = 1
    /\ isessions[1].cwd = Some(Path(TRUE, <<<<"a">>>>))
    /\ pane_iter(isessions[1].windows[1].root_split)[1].cwd = Some(Path(FALSE, <<<<"b">>>>))
    /\ pane_iter(isessions[1].windows[2].root_split)[1].cwd
          = Some(Path(TRUE, <<<<"a", "b">>>>))

\* As PairedPanes, for the exported session and window of each pair as well.
PairedWindows(Holds(_, _, _, _)) ==
    LET sessions == istate.v[1].sessions
    IN  \E sorder \in AscendingOrders(sessions, [sid \in DOMAIN sessions |-> sid]) :
           \A s \in DOMAIN sorder :
              LET session == sessions[sorder[s]]
              IN  \E worder \in AscendingOrders(session.windows,
                                                [wid \in DOMAIN session.windows |->
                                                    session.windows[wid].index]) :
                     \A w \in DOMAIN worder :
                        LET window == session.windows[worder[w]]
                            config_window == isessions[s].windows[w]
                            config_panes == pane_iter(config_window.root_split)
                        IN  \E porder \in AscendingOrders(window.panes,
                                                          [pid \in DOMAIN window.panes |->
                                                              window.panes[pid].index]) :
                               \A k \in DOMAIN config_panes \cap DOMAIN porder :
                                  Holds(isessions[s], config_window, config_panes[k],
                                        window.panes[porder[k]])

\* What new_window and apply_split compute for the pane from the exported
\* values is the cwd the imported pane had.
Recompiled(config_session, config_window, config_pane, pane) ==
    (pane.cwd # <<>> /\ PathNew(pane.cwd).abs) =>
        joined(joined(config_session.cwd, config_window.cwd), config_pane.cwd)
            = Some(PathNew(pane.cwd))

\* C30: for every imported session cwd and absolute pane cwd, the cwd the command
\* builder computes from the exported session, window and pane,
\* join(join(session cwd, window cwd), pane cwd), is the path of the pane cwd.
C30_CwdSurvives == ipc = "exported" => PairedWindows(Recompiled)

\* Session $2 in /a with pane %2 in /a, stored without a cwd, and pane %3 in /t,
\* stored as /t.
C30_Witness ==
    /\ ipc = "exported"
    /\ ImportRows = <<RowA2, RowA3>>
    /\ LET config_panes == pane_iter(isessions[1].windows[1].root_split)
       IN  /\ config_panes[1].cwd = None
           /\ config_panes[2].cwd = Some(Path(TRUE, <<<<"t">>>>))
           /\ joined(joined(isessions[1].cwd, isessions[1].windows[1].cwd),
                     config_panes[1].cwd) = Some(Path(TRUE, <<<<"a">>>>))

(***************************************************************************)
(* Claims about the conversion of geometry trees                           *)
(***************************************************************************)
Extent(kind, l) == NatOf(IF kind = "H" THEN LayoutWidth(l) ELSE LayoutHeight(l))

\* The accumulated extent of children: that of the last, and for each child
\* before it its own less the separator line.
RECURSIVE AccExtent(_, _)
AccExtent(kind, children) ==
    IF Len(children) = 1 THEN Extent(kind, children[1])
    ELSE AccExtent(kind, Tail(children)) + Extent(kind, children[1]) - 1

\* a / b rounded to the nearest integer, halves away from zero, for a >= 0 < b.
Rounded(a, b) == CHOOSE p \in 0..(a + 1) : 2 * a - b < 2 * p * b /\ 2 * p * b <= 2 * a + b

\* The right-associative chain of the children of a node, from the left.
RECURSIVE ChainOf(_, _)
RECURSIVE Converted(_)
ChainOf(kind, children) ==
    IF Len(children) = 1 THEN Converted(children[1])
    ELSE LET acc == AccExtent(kind, Tail(children))
             w == Extent(kind, children[1])
             pct == ToString(Rounded(acc * 100, acc + w - 1)) \o "%"
         IN  IF kind = "H"
             THEN SplitH(HPart(None, Converted(children[1])),
                         HPart(Some(pct), ChainOf(kind, Tail(children))))
             ELSE SplitV(VPart(None, Converted(children[1])),
                         VPart(Some(pct), ChainOf(kind, Tail(children))))
Converted(l) == IF l.kind = "Pane" THEN DefaultSplit ELSE ChainOf(l.kind, l.splits)

\* C28: an H node with children c1..cn converts to the right-associative chain
\* H{left: c1, right: H{left: c2, ... right: cn}}, the converted child for n = 1;
\* no left side has a size, and each right side has the size "<p>%" with
\* p = round(acc * 100 / (acc + w - 1)), acc the accumulated width of the children
\* to the right and w the width of the child on the left; V nodes the same with
\* heights, top and bottom.
C28_Chain ==
    lstage = "converted" => lsplit[1] = Converted(llayout[1].v[1])

\* An H node with pane children of widths 1, 39 and 40.
C28_Witness ==
    /\ lstage = "converted"
    /\ llayout[1].v[1].kind = "H"
    /\ Len(llayout[1].v[1].splits) = 3
    /\ [k \in 1..3 |-> NatOf(LayoutWidth(llayout[1].v[1].splits[k]))] = <<1, 39, 40>>
    /\ lsplit[1] = SplitH(HPart(None, DefaultSplit),
                          HPart(Some("100%"),
                                SplitH(HPart(None, DefaultSplit),
                                       HPart(Some("51%"), DefaultSplit))))

(***************************************************************************)
(* The cursor while the split commands execute (specification SpecExec)    *)
(***************************************************************************)
\* The configured pane the multiplexer's pane `id` was created for, by its command.
CreatedFor(id) == PaneRecord(CurrentWindow(tmux), id).cmd

\* The pane apply_split means to return to after a node's child side: the root
\* pane of the node's parent side.
ParentPane(node) == root_pane(ParentSide(node, SplitFlowFrom(node)).split)

\* C22: for every H/V node of the window's tree, right after the select-pane that
\* follows the node's child subtree has executed, the active pane is the root pane
\* of the node's parent side.
C22_CursorReturns ==
    \A site \in SplitSites(xwindow.root_split, 4) :
        Len(xlog) >= site.back =>
            CreatedFor(xlog[site.back].active) = ParentPane(site.node).shell_command

(***************************************************************************)
(* Top-level windows (specification Spec)                                  *)
(***************************************************************************)
\* new_windows of the top-level list on a fresh builder: no session name is known.
TopLevelApplied == Len(ops) = 2 /\ ops[2].op = "new_windows"

\* How many windows select_active_window steps back from the last one.
StepsBack(windows) ==
    LET flagged == FlaggedWindows([windows |-> windows])
    IN  IF flagged = {} THEN 0
        ELSE Len(windows) - (CHOOSE i \in flagged : \A j \in flagged : i <= j) - 1

SelectWindows == {k \in 1..Len(Emitted) : Emitted[k][1] = "select-window"}

\* C26: new_windows on a fresh builder with n windows, the first active one at
\* position i, emits exactly n - i - 1 subcommands select-window -t : -p, all
\* after the last window's subcommands, and no other select-window; with no
\* active window it emits none.
C26_TopLevelActiveWindow ==
    TopLevelApplied =>
        LET steps == StepsBack(ops[2].windows)
        IN  /\ Cardinality(SelectWindows) = steps
            /\ SelectWindows = (Len(Emitted) - steps + 1)..Len(Emitted)
            /\ \A k \in SelectWindows : Emitted[k] = <<"select-window", "-t", ":", "-p">>

\* Three windows, the first active: two steps back.
C26_Witness ==
    /\ TopLevelApplied
    /\ Len(ops[2].windows) = MaxWindows + 1
    /\ StepsBack(ops[2].windows) = MaxWindows
    /\ Cardinality(SelectWindows) = MaxWindows

\* The builder after the first k recorded operations.
ApplyOp(b, op) ==
    CASE op.op = "new_windows" -> new_windows(b, op.windows, None)
      [] op.op = "new_session" -> new_session(b, op.sessions[1])
      [] op.op = "new_sessions" -> new_sessions(b, op.sessions)
      [] op.op = "select_session" -> select_session(b, op.name, op.mode)
      [] op.op = "query_panes" -> query_panes(b, QueryFormat, op.scope)
      [] op.op = "query_clients" -> query_clients(b)

RECURSIVE Replay(_)
Replay(k) ==
    IF k = 1 THEN NewBuilder(TmuxPath, ops[1].tmux_args)
    ELSE ApplyOp(Replay(k - 1), ops[k])

\* The subcommands the k-th operation emitted.
EmittedBy(k) == SubSeq(Emitted, Replay(k - 1).ncmds + 1, Replay(k).ncmds)

\* The operations that applied a non-empty list of top-level windows.
TopLevelOps == {k \in 2..Len(ops) : ops[k].op = "new_windows" /\ ops[k].windows # <<>>}

\* Every rendering of a session, window or pane target under `session`; the
\* window counter runs over all the windows applied to the builder.
TargetsOf(session) ==
    {DisplaySession(session)}
        \cup {DisplayWindow(TargetWindow(session, ToString(i))) :
                 i \in 0..(MaxOps * (MaxWindows + 1))}
        \cup {DisplayPane(TargetPane(TargetCurrentWindow(session), ToString(i))) :
                 i \in 0..MaxPanes}

\* Every subcommand the k-th operation emitted is targeted under `session`.
TargetedAt(k, session) ==
    \A i \in 1..Len(EmittedBy(k)) :
        LET target == OptValue(Parsed(EmittedBy(k)[i]), "-t")
        IN  is_some(target) /\ target[1] \in TargetsOf(session)

\* C27 as stated: whatever was applied to the builder before, every subcommand
\* emitted for a top-level window has a target with an empty session component.
C27_NeverQualified == \A k \in TopLevelOps : TargetedAt(k, TargetDefault)

\* The sessions with windows applied to the builder before the k-th operation.
RECURSIVE SessionsBefore(_)
SessionsBefore(k) ==
    IF k <= 2 THEN <<>>
    ELSE SessionsBefore(k - 1)
            \o (IF ops[k - 1].op \in {"new_session", "new_sessions"}
                THEN SelectSeq(ops[k - 1].sessions, LAMBDA session : session.windows # <<>>)
                ELSE <<>>)

\* C27: the subcommands of top-level windows have an empty session component
\* when no session with windows was applied to the builder before them (the
\* order of run_create); applied after such a session, they are all targeted at
\* the last such session.
C27_QualifiedAsKnown ==
    \A k \in TopLevelOps :
        IF SessionsBefore(k) = <<>>
        THEN TargetedAt(k, TargetDefault)
        ELSE /\ TargetedAt(k, TargetSession(Last(SessionsBefore(k)).name))
             /\ ~TargetedAt(k, TargetDefault)

\* The order of run_create: top-level windows, then sessions with windows.
C27_Witness ==
    /\ Len(ops) = 3
    /\ ops[2].op = "new_windows"
    /\ Len(ops[2].windows) = 2
    /\ ops[3].op = "new_sessions"
    /\ Len(ops[3].sessions) = 2
    /\ current_session_name = Some("s2")
    /\ TargetedAt(2, TargetDefault)

(***************************************************************************)
(* The order of a session's subcommands (specification Spec)               *)
(***************************************************************************)
\* How many subcommands a window emits: new-window, split-window, kill-pane, the
\* split commands of its tree, and the select-pane of its active pane.
WindowLen(window) ==
    3 + StreamLen(window.root_split) + (IF ActivePanes(window) # <<>> THEN 1 ELSE 0)

\* Where the j-th window of a session starts in the session's subcommands: after
\* new-session, the earlier windows and, past the first window, the kill-window.
RECURSIVE WindowStart(_, _)
WindowStart(windows, j) ==
    IF j = 1 THEN 2
    ELSE WindowStart(windows, j - 1) + WindowLen(windows[j - 1]) + (IF j = 2 THEN 1 ELSE 0)

\* The subcommands stream[from..to] are those of `window` of the session `name`.
WindowBlock(stream, from, window, name, first) ==
    LET to == from + WindowLen(window) - 1
        opened == Parsed(stream[from])
    IN  /\ to <= Len(stream)
        /\ Head(stream[from]) = "new-window"
        /\ OptValue(opened, "-n") = window.name
        /\ ("-b" \in opened.flags) <=> first
        /\ OptValue(opened, "-t") = Some(IF first THEN name \o ":0." ELSE name \o ":")
        /\ Head(stream[from + 1]) = "split-window"
        /\ stream[from + 2] = <<"kill-pane", "-t", name \o ":.0">>
        /\ \A i \in (from + 3)..(from + 2 + StreamLen(window.root_split)) :
              Head(stream[i]) \in {"split-window", "select-pane", "send-keys"}
        /\ Cardinality({i \in from..to : Head(stream[i]) = "split-window"})
              = NumPanes(window.root_split)
        /\ ActivePanes(window) # <<>> =>
              stream[to] = <<"select-pane", "-t",
                             name \o ":." \o ToString(ActivePanes(window)[1])>>

\* The subcommands `stream` are those of `session`, in the order of new_session.
SessionBlock(stream, session) ==
    LET windows == session.windows
        n == Len(windows)
        end == WindowStart(windows, n) + WindowLen(windows[n]) + (IF n = 1 THEN 1 ELSE 0)
    IN  /\ stream[1] = <<"new-session", "-s", session.name>>
                          \o (IF is_some(session.cwd)
                              THEN <<"-c", PathStr(session.cwd[1])>> ELSE <<>>)
                          \o <<"-d">>
        /\ \A j \in 1..n :
              WindowBlock(stream, WindowStart(windows, j), windows[j], session.name, j = 1)
        /\ stream[2 + WindowLen(windows[1])] = <<"kill-window", "-t", session.name \o ":1.">>
        /\ IF FlaggedWindows(session) = {}
           THEN Len(stream) = end - 1
           ELSE /\ Len(stream) = end
                /\ Head(stream[end]) = "select-window"

\* C25: the subcommands of a session are new-session, the first window's
\* subcommands, the kill-window of the placeholder, the later windows' subcommands
\* in list order and the optional select-window; the sessions' blocks follow one
\* another in configuration order.
C25_SessionBlockOrder ==
    SessionsApplied =>
        /\ Len(SessionStarts) = Len(SessionsReached)
        /\ SessionsReached # <<>> => SessionStarts[1] = 1
        /\ \A k \in 1..Len(SessionsReached) :
              SessionBlock(SessionStream(k), SessionsReached[k])

\* Two sessions of two windows each, the second with a working directory.
C25_Witness ==
    /\ SessionsApplied
    /\ Len(SessionsReached) = 2
    /\ \A k \in 1..2 : Len(SessionsReached[k].windows) = 2
    /\ SessionsReached[1].windows[1] # SessionsReached[1].windows[2]
    /\ is_some(SessionsReached[2].cwd)
    /\ Len(SessionStarts) = 2

(***************************************************************************)
(* Sizes and pane creation (specification SpecExec)                        *)
(***************************************************************************)
\* The sides of a node that carry a size hint.
SizedSidesOf(node) ==
    {side \in {FirstPart(node), SecondPart(node)} : is_some(SideSize(node, side))}

\* Every split of the tree has at most one sized side.
RECURSIVE AtMostOneSized(_)
AtMostOneSized(tree) ==
    tree.kind # "Pane" =>
        /\ ~(is_some(SideSize(tree, FirstPart(tree)))
               /\ is_some(SideSize(tree, SecondPart(tree))))
        /\ AtMostOneSized(FirstPart(tree).split)
        /\ AtMostOneSized(SecondPart(tree).split)

\* How many sides of the tree carry a size hint.
RECURSIVE NumSized(_)
NumSized(tree) ==
    IF tree.kind = "Pane" THEN 0
    ELSE (IF is_some(SideSize(tree, FirstPart(tree))) THEN 1 ELSE 0)
            + (IF is_some(SideSize(tree, SecondPart(tree))) THEN 1 ELSE 0)
            + NumSized(FirstPart(tree).split) + NumSized(SecondPart(tree).split)

\* The subcommands of the stream that carry -l.
WithSize == {i \in 1..Len(ExecStream) : is_some(OptValue(Parsed(ExecStream[i]), "-l"))}

\* C24: in a tree whose splits have at most one sized side each, the split-window
\* of a node carries as -l the hint of the node's sized side and creates that
\* side's root pane, and carries no -l when no side is sized; the subcommands
\* with -l are as many as the sized sides; the split-window that creates the
\* window's root pane carries no -l; the multiplexer records each hint with the
\* pane created for the sized side.
C24_SizesAsLength ==
    (xpc \in {"run", "done"} /\ AtMostOneSized(xwindow.root_split)) =>
        /\ \A site \in SplitSites(xwindow.root_split, 4) :
              LET split_window == Parsed(ExecStream[site.at])
              IN  /\ \A side \in SizedSidesOf(site.node) :
                        /\ OptValue(split_window, "-l") = SideSize(site.node, side)
                        /\ split_window.rest = root_pane(side.split).shell_command
                        /\ Len(xlog) >= site.at =>
                              LET created == PaneRecord(CurrentWindow(tmux),
                                                        xlog[site.at].active)
                              IN  /\ created.cmd = root_pane(side.split).shell_command
                                  /\ created.size = SideSize(site.node, side)
                  /\ SizedSidesOf(site.node) = {} => is_none(OptValue(split_window, "-l"))
        /\ Cardinality(WithSize) = NumSized(xwindow.root_split)
        /\ WithSize \subseteq {site.at : site \in SplitSites(xwindow.root_split, 4)}
        /\ Head(ExecStream[3]) = "split-window"
        /\ 3 \notin WithSize

\* Four panes, a sized left side and a sized bottom side, all executed.
C24_Witness ==
    /\ xpc = "done"
    /\ AtMostOneSized(xwindow.root_split)
    /\ NumPanes(xwindow.root_split) = 4
    /\ NumSized(xwindow.root_split) = 3
    /\ \E site \in SplitSites(xwindow.root_split, 4) : SizedFirst(site.node)
    /\ \E site \in SplitSites(xwindow.root_split, 4) :
          ~SizedFirst(site.node) /\ SizedSidesOf(site.node) # {}
    /\ Cardinality(WithSize) = 3

\* The panes of the executed window that are sent keys, by position in pane_iter.
KeyedPanes ==
    {i \in 1..Len(pane_iter(xwindow.root_split)) :
        is_some(pane_iter(xwindow.root_split)[i].send_keys)}

SendKeys == {k \in 1..Len(ExecStream) : Head(ExecStream[k]) = "send-keys"}

\* Each pane with keys has exactly one send-keys subcommand, carrying its keys in
\* order, and there is no other send-keys.
KeysEmitted ==
    /\ Cardinality(SendKeys) = Cardinality(KeyedPanes)
    /\ \A i \in KeyedPanes :
          Cardinality({k \in SendKeys :
                          ExecStream[k] = <<"send-keys", "-t", ExecSessionName \o ":">>
                                             \o pane_iter(xwindow.root_split)[i].send_keys[1]})
              = 1

\* C23: each pane with keys has exactly one send-keys subcommand carrying its keys
\* in order, panes without keys have none, and when a pane's send-keys executes
\* that pane is the active pane of the current window.
C23_KeysReachPane ==
    xpc \in {"run", "done"} =>
        /\ KeysEmitted
        /\ \A i \in KeyedPanes :
              \A k \in SendKeys :
                  (/\ Len(xlog) >= k
                   /\ SubSeq(ExecStream[k], 4, Len(ExecStream[k]))
                         = pane_iter(xwindow.root_split)[i].send_keys[1])
                      => CreatedFor(xlog[k].active)
                            = pane_iter(xwindow.root_split)[i].shell_command

\* The position in pane_iter of the pane root_pane descends to.
RECURSIVE RootIndex(_)
RootIndex(tree) ==
    IF tree.kind = "Pane" THEN 1
    ELSE IF SizedFirst(tree)
    THEN NumPanes(FirstPart(tree).split) + RootIndex(SecondPart(tree).split)
    ELSE RootIndex(FirstPart(tree).split)

\* The positions in pane_iter of the panes apply_split creates below `tree`, in
\* the order of their split-window subcommands; `base` panes precede the tree.
RECURSIVE CreationOrder(_, _)
CreationOrder(tree, base) ==
    IF tree.kind = "Pane" THEN <<>>
    ELSE LET first == FirstPart(tree).split
             second == SecondPart(tree).split
             behind == base + NumPanes(first)
         IN  IF SizedFirst(tree)
             THEN <<base + RootIndex(first)>>
                     \o CreationOrder(first, base) \o CreationOrder(second, behind)
             ELSE <<behind + RootIndex(second)>>
                     \o CreationOrder(second, behind) \o CreationOrder(first, base)

\* Every pane of the window in the order of creation: the root pane first.
ExecCreated == <<RootIndex(xwindow.root_split)>> \o CreationOrder(xwindow.root_split, 0)

SplitWindows == {k \in 1..Len(ExecStream) : Head(ExecStream[k]) = "split-window"}

\* The split-window `cmd` carries the command of `pane` and its working directory
\* joined to the session's and the window's, or no -c when that is absent.
Creates(cmd, pane) ==
    LET cwd == joined(joined(ExecSession.cwd, xwindow.cwd), pane.cwd)
    IN  /\ Parsed(cmd).rest = pane.shell_command
        /\ OptValue(Parsed(cmd), "-c") = (IF is_some(cwd) THEN Some(PathStr(cwd[1])) ELSE None)

\* C29: a window emits as many split-window subcommands as its tree has panes and
\* one kill-pane, of pane 0; the creation steps (the root pane, then the child
\* side's root pane of every node) name every pane of the tree exactly once, and
\* each split-window carries the command and the joined working directory of the
\* pane it creates.
C29_PanesCreatedOnce ==
    xpc \in {"run", "done"} =>
        LET panes == pane_iter(xwindow.root_split)
            sites == SplitSites(xwindow.root_split, 4)
        IN  /\ Cardinality(SplitWindows) = Len(panes)
            /\ SplitWindows = {3} \cup {site.at : site \in sites}
            /\ {k \in 1..Len(ExecStream) : Head(ExecStream[k]) = "kill-pane"} = {4}
            /\ ExecStream[4] = <<"kill-pane", "-t", ExecSessionName \o ":.0">>
            /\ Len(ExecCreated) = Len(panes)
            /\ {ExecCreated[j] : j \in 1..Len(ExecCreated)} = 1..Len(panes)
            /\ panes[ExecCreated[1]] = root_pane(xwindow.root_split)
            /\ \A site \in sites :
                  Creates(ExecStream[site.at],
                          root_pane(ChildSide(site.node, SplitFlowFrom(site.node)).split))
            /\ \A j \in 1..Len(panes) :
                  Creates(ExecStream[Sorted(SplitWindows)[j]], panes[ExecCreated[j]])
            /\ xpc = "done" => Len(LeafIds(CurrentWindow(tmux).layout)) = Len(panes)

\* Four panes, the root pane not the first of pane_iter and with a directory of
\* its own, created under the window's directory.
C29_Witness ==
    /\ xpc = "done"
    /\ NumPanes(xwindow.root_split) = 4
    /\ RootIndex(xwindow.root_split) = 2
    /\ is_some(root_pane(xwindow.root_split).cwd)
    /\ OptValue(Parsed(ExecStream[3]), "-c") = Some("/w/p1")
    /\ Cardinality(SplitWindows) = 4

====
